---- MODULE Spec2Model ----
(***************************************************************************)
(* A model of the pilarjs presence client: the connection state machine   *)
(* of packages/client/src/connection.ts (ManagedSocket), the WebSocket    *)
(* transport wrapper and the channel multiplexer of client.ts/channel.ts. *)
(*                                                                         *)
(* The whole program state is threaded through pure operators as one      *)
(* record r (see Cur); every action computes the record after the whole   *)
(* synchronous handler has run and installs it with Apply.                *)
(***************************************************************************)
EXTENDS Integers, Sequences, FiniteSets, TLC

VARIABLES
    currentState,    \* FSM: current state name, "stopped" after stop()
    running,         \* FSM: TRUE between start() and stop()
    context,         \* FSM context {successCount, authValue, transport, backoffDelay}
    lastStatus,      \* defineConnectivityEvents: last status seen by the didEnterState subscriber
    timer,           \* pending timed transition of a backoff state
    authCall,        \* the authenticate() call of the current @auth.busy entry
    staleAuth,       \* authenticate() calls whose state was exited before they settled
    transports,      \* every transport created by createTransport, with its attempt
    attempt,         \* transport id of the current @connecting.busy entry (0: none)
    paused,          \* onMessage event source: paused flag
    pauseQueue,      \* onMessage event source: notifications queued while paused
    unpauseTimer,    \* the 0 ms setTimeout(onMessage.unpause) of the OK entry
    errors,          \* values the last step notified on onPilarjsError, in order
    effectLog,       \* what the transition of the last step observed
    messageBuffer,   \* client: outbound frames not yet handed to the socket
    accepted,        \* client: every frame passed to sendMessages, in order
    sentLog,         \* every (transport, frame) handed to transport.send, in order
    okSince,         \* frames for which the machine was in an OK state at or after acceptance
    channelsById,    \* client: channel id -> index of its ChannelInfo (0: absent)
    infos,           \* every ChannelInfo ever created
    leases,          \* every leave function ever handed out: the info it closes over
    notified,        \* notifications the last step made on channel event sources
    warnings,        \* number of console.warn calls of the last step
    inbound,         \* number of message events the last step dispatched
    flushed,         \* number of frames the last step took out of the buffer
    failures,        \* retry runs: consecutive failures since the last successful connection
    options,         \* createClient: the numeric options passed, each << >> or << value >>
    client,          \* createClient: "none" before the call, then "created" or "threw"
    codec,           \* msgpack: the value, its bytes and what decode made of them
    datagram         \* a WT transport instance on its own, and what it last delivered

vars == << currentState, running, context, lastStatus, timer, authCall, staleAuth,
           transports, attempt, paused, pauseQueue, unpauseTimer, errors, effectLog,
           messageBuffer, accepted, sentLog, okSince, channelsById, infos, leases,
           notified, warnings, inbound, flushed, failures,
           options, client, codec, datagram >>

\* Everything but the codec and the Datagram transport
program == << currentState, running, context, lastStatus, timer, authCall, staleAuth,
              transports, attempt, paused, pauseQueue, unpauseTimer, errors, effectLog,
              messageBuffer, accepted, sentLog, okSince, channelsById, infos, leases,
              notified, warnings, inbound, flushed, failures, options, client >>

----------------------------------------------------------------------------
\* Bounds of the model

MaxTransports == 2
MaxFrames == 3
MaxLeases == 2
MaxInfos == 2
MaxInbound == 1
MaxQueued == 2
MaxStale == 1
MaxTier == 2
MaxFailures == 8
Margin == 1
MaxChars == 2
MaxItems == 2
MaxSeconds == 3
MaxDepth == 1
MaxCloses == 1

----------------------------------------------------------------------------
\* Program constants

BACKOFF_DELAYS == << 250, 500, 1000, 2000, 4000, 8000, 10000 >>

RESET_DELAY == BACKOFF_DELAYS[1] - 1

NullTransport == 0

NullAuth == "null"

States == { "@idle.initial", "@idle.failed", "@idle.zombie",
            "@auth.busy", "@auth.backoff",
            "@connecting.busy", "@connecting.backoff",
            "@ok.connected", "@ok.awaiting-pong" }

OwnUid == "u1"

Peers == { OwnUid, "u2" }

ChannelIds == { "room-1", "room-2" }

CloseCodes == { 4001 }

MIN_THROTTLE == 16
MAX_THROTTLE == 1000
DEFAULT_THROTTLE == 100
MIN_BACKGROUND_KEEP_ALIVE_TIMEOUT == 15000
MIN_LOST_CONNECTION_TIMEOUT == 200
MAX_LOST_CONNECTION_TIMEOUT == 30000
DEFAULT_LOST_CONNECTION_TIMEOUT == 5000

\* index.ts: new Uint8Array(128), the encoder's first buffer
InitialLength == 128

CloseReason(code) == IF code = 4001 THEN "bad token" ELSE ""

initialContext ==
    [ successCount |-> 0, authValue |-> NullAuth,
      transport |-> NullTransport, backoffDelay |-> RESET_DELAY ]

\* What the transition of a step observed: the state it left, whether it left
\* the OK group, the context transport after the cleanups (what the effects
\* then see), and the number of close() calls made so far on the transport it
\* left OK with
NoExit == [ from |-> "none", leftOk |-> FALSE, seen |-> NullTransport, closes |-> 0 ]

----------------------------------------------------------------------------
\* The program state as one record

\* errors, effectLog, notified, warnings, inbound and flushed record what one step
\* emitted, so every step starts from empty ones; emitted (the connectivity
\* notifications of the handler) is a field of the record only
Cur ==
    [ currentState |-> currentState, running |-> running, context |-> context,
      lastStatus |-> lastStatus, timer |-> timer, authCall |-> authCall,
      staleAuth |-> staleAuth, transports |-> transports, attempt |-> attempt,
      paused |-> paused, pauseQueue |-> pauseQueue, unpauseTimer |-> unpauseTimer,
      errors |-> << >>,
      effectLog |-> NoExit,
      messageBuffer |-> messageBuffer, accepted |-> accepted, sentLog |-> sentLog,
      okSince |-> okSince, channelsById |-> channelsById, infos |-> infos,
      leases |-> leases, notified |-> << >>, warnings |-> 0,
      inbound |-> 0, flushed |-> 0, emitted |-> << >> ]

Apply(r) ==
    /\ currentState' = r.currentState
    /\ running' = r.running
    /\ context' = r.context
    /\ lastStatus' = r.lastStatus
    /\ timer' = r.timer
    /\ authCall' = r.authCall
    /\ staleAuth' = r.staleAuth
    /\ transports' = r.transports
    /\ attempt' = r.attempt
    /\ paused' = r.paused
    /\ pauseQueue' = r.pauseQueue
    /\ unpauseTimer' = r.unpauseTimer
    /\ errors' = r.errors
    /\ effectLog' = r.effectLog
    /\ messageBuffer' = r.messageBuffer
    /\ accepted' = r.accepted
    /\ sentLog' = r.sentLog
    /\ okSince' = r.okSince
    /\ channelsById' = r.channelsById
    /\ infos' = r.infos
    /\ leases' = r.leases
    /\ notified' = r.notified
    /\ warnings' = r.warnings
    /\ inbound' = r.inbound
    /\ flushed' = r.flushed

\* The model explores the program only inside its bounds
Bounded(r) ==
    /\ Len(r.transports) <= MaxTransports
    /\ Len(r.accepted) <= MaxFrames
    /\ Len(r.leases) <= MaxLeases
    /\ Len(r.infos) <= MaxInfos
    /\ r.staleAuth <= MaxStale
    /\ r.context.backoffDelay <= BACKOFF_DELAYS[MaxTier]

----------------------------------------------------------------------------
\* Transport instances (WS wrapper) and the connection attempt that made them

NoEvent == [ kind |-> "none", code |-> 0 ]

ErrorEvent == [ kind |-> "error", code |-> 0 ]

CloseEvent(code) == [ kind |-> "close", code |-> code ]

TimeoutError == [ kind |-> "timeout", code |-> 0 ]

\* new WS(address): readyState CONNECTING, no subscriber yet; the attempt's
\* promise is pending, nothing captured, signal not aborted
NewTransport ==
    [ ws |-> "connecting", readyState |-> "CONNECTING", closeCalls |-> 0,
      tempSubs |-> FALSE, okSubs |-> FALSE, msgSub |-> FALSE,
      phase |-> "pending", reason |-> NoEvent, captured |-> NoEvent,
      aborted |-> FALSE ]

\* WS.close(): clear the close, error and message subscribers, then ws.close()
WsClose(tr) ==
    [ tr EXCEPT !.tempSubs = FALSE, !.okSubs = FALSE, !.msgSub = FALSE,
                !.closeCalls = @ + 1,
                !.ws = IF @ \in { "connecting", "open" } THEN "closing" ELSE @ ]

\* teardownTransport(transport): transport?.close()
teardownTransport(r, t) ==
    IF t = NullTransport THEN r
    ELSE [ r EXCEPT !.transports[t] = WsClose(@) ]

\* isCloseEvent(error)
isCloseEvent(e) == e.kind = "close"

----------------------------------------------------------------------------
\* Status and the outbound path of the client

InOk(s) == s \in { "@ok.connected", "@ok.awaiting-pong" }

toConnectionStatus(s, ctx) ==
    CASE s \in { "@ok.connected", "@ok.awaiting-pong" } -> "connected"
      [] s = "@idle.initial" -> "initial"
      [] s \in { "@auth.busy", "@auth.backoff", "@connecting.busy",
                 "@connecting.backoff", "@idle.zombie" } ->
            IF ctx.successCount > 0 THEN "reconnecting" ELSE "connecting"
      [] s = "@idle.failed" -> "disconnected"

\* ManagedSocket.getStatus(): "initial" when the machine has no current state
getStatus(r) ==
    IF r.currentState \in States
    THEN toConnectionStatus(r.currentState, r.context)
    ELSE "initial"

\* WS.send(data) throws when the wrapper is not open, ws.send(data) when the
\* socket is still connecting
WsSendThrows(tr) == tr.readyState # "OPEN" \/ tr.ws = "connecting"

\* A send that checks nothing
ManagedSocketSend_Unchecked(r, f) ==
    [ r EXCEPT !.sentLog = Append(@, [ to |-> r.context.transport, f |-> f ]) ]

\* ManagedSocket.send(data) followed by WS.send: the frame reaches the
\* transport only when the context holds a transport whose readyState is
\* OPEN, otherwise a warning is logged
ManagedSocketSend(r, f) ==
    LET socket == r.context.transport IN
    IF socket = NullTransport THEN [ r EXCEPT !.warnings = @ + 1 ]
    ELSE IF r.transports[socket].readyState # "OPEN"
    THEN [ r EXCEPT !.warnings = @ + 1 ]
    ELSE [ r EXCEPT !.sentLog = Append(@, [ to |-> socket, f |-> f ]) ]

RECURSIVE SendEach(_, _)
SendEach(r, messages) ==
    IF messages = << >> THEN r
    ELSE SendEach(ManagedSocketSend(r, Head(messages)), Tail(messages))

\* doSendMessages() that reads the buffer without splicing it
doSendMessages_NoSplice(r) == SendEach(r, r.messageBuffer)

\* doSendMessages(): splice the whole buffer, send each message in order
doSendMessages(r) ==
    SendEach([ r EXCEPT !.messageBuffer = << >>,
                        !.flushed = @ + Len(r.messageBuffer) ],
             r.messageBuffer)

\* onDidConnect()
onDidConnect(r) == doSendMessages(r)

\* sendMessages(messages) that puts new messages at the front of the buffer
sendMessages_Lifo(r, messages) ==
    LET n == Len(r.accepted)
        ids == [ i \in 1..Len(messages) |-> n + i ]
        pushed == [ r EXCEPT !.messageBuffer = ids \o @,
                             !.accepted = @ \o messages ]
    IN  IF getStatus(pushed) = "connected"
        THEN doSendMessages([ pushed EXCEPT !.okSince =
                                 @ \cup { ids[i] : i \in 1..Len(messages) } ])
        ELSE pushed

\* sendMessages(messages): push each message, flush when connected. The
\* frames are numbered in the order of acceptance (accepted, okSince record it)
sendMessages(r, messages) ==
    LET n == Len(r.accepted)
        ids == [ i \in 1..Len(messages) |-> n + i ]
        pushed == [ r EXCEPT !.messageBuffer = @ \o ids,
                             !.accepted = @ \o messages ]
    IN  IF getStatus(pushed) = "connected"
        THEN doSendMessages([ pushed EXCEPT !.okSince =
                                 @ \cup { ids[i] : i \in 1..Len(messages) } ])
        ELSE pushed

\* A notification of statusDidChange, didConnect or didDisconnect
Emitted(source, value) == [ source |-> source, value |-> value ]

\* A subscriber that announces a disconnect whenever the status changes
\* from one that is not "connecting"
ConnectivitySubscriber_ByStatus(r) ==
    LET currStatus == toConnectionStatus(r.currentState, r.context)
        changed == IF currStatus # r.lastStatus
                   THEN << Emitted("statusDidChange", currStatus) >>
                   ELSE << >>
        moved == IF r.lastStatus # "connected" /\ currStatus = "connected"
                 THEN << Emitted("didConnect", "void") >>
                 ELSE IF r.lastStatus # "connecting" /\ currStatus # r.lastStatus
                 THEN << Emitted("didDisconnect", "void") >>
                 ELSE << >>
        r1 == [ r EXCEPT !.lastStatus = currStatus,
                         !.emitted = @ \o changed \o moved ]
    IN  IF r.lastStatus # "connected" /\ currStatus = "connected"
        THEN onDidConnect(r1)
        ELSE r1

\* The didEnterState subscriber of defineConnectivityEvents; emitted is what
\* the handler that runs has notified on the three event sources, in order
ConnectivitySubscriber(r) ==
    LET currStatus == toConnectionStatus(r.currentState, r.context)
        changed == IF currStatus # r.lastStatus
                   THEN << Emitted("statusDidChange", currStatus) >>
                   ELSE << >>
        moved == IF r.lastStatus = "connected" /\ currStatus # "connected"
                 THEN << Emitted("didDisconnect", "void") >>
                 ELSE IF r.lastStatus # "connected" /\ currStatus = "connected"
                 THEN << Emitted("didConnect", "void") >>
                 ELSE << >>
        r1 == [ r EXCEPT !.lastStatus = currStatus,
                         !.emitted = @ \o changed \o moved ]
    IN  IF r.lastStatus # "connected" /\ currStatus = "connected"
        THEN onDidConnect(r1)
        ELSE r1

----------------------------------------------------------------------------
\* Context effects of connection.ts

Patch(ctx, patch) ==
    [ k \in DOMAIN ctx |-> IF k \in DOMAIN patch THEN patch[k] ELSE ctx[k] ]

\* A search for the first delay not smaller than the current one
nextBackoffDelay_NotStrict(currentDelay, delays) ==
    IF \E i \in 1..Len(delays) : delays[i] >= currentDelay
    THEN delays[CHOOSE i \in 1..Len(delays) :
                  /\ delays[i] >= currentDelay
                  /\ \A j \in 1..(i - 1) : ~(delays[j] >= currentDelay)]
    ELSE delays[Len(delays)]

nextBackoffDelay(currentDelay, delays) ==
    IF \E i \in 1..Len(delays) : delays[i] > currentDelay
    THEN delays[CHOOSE i \in 1..Len(delays) :
                  /\ delays[i] > currentDelay
                  /\ \A j \in 1..(i - 1) : ~(delays[j] > currentDelay)]
    ELSE delays[Len(delays)]

increaseBackoffDelay(ctx) ==
    Patch(ctx, [ backoffDelay |-> nextBackoffDelay(ctx.backoffDelay, BACKOFF_DELAYS) ])

resetSuccessCount(ctx) == Patch(ctx, [ successCount |-> 0 ])

\* fireErrorEvent(errmsg, errcode): notify onPilarjsError
fireErrorEvent(r, errmsg, errcode) ==
    [ r EXCEPT !.errors = Append(@, [ message |-> errmsg, code |-> errcode ]) ]

\* One effect of a transition, run on the patchable context
ApplyEffect(r, e) ==
    CASE e.op = "increaseBackoffDelay" ->
            [ r EXCEPT !.context = increaseBackoffDelay(@) ]
      [] e.op = "resetSuccessCount" ->
            [ r EXCEPT !.context = resetSuccessCount(@) ]
      [] e.op = "assign" ->
            [ r EXCEPT !.context = Patch(@, e.patch) ]
      [] e.op = "fireErrorEvent" -> fireErrorEvent(r, e.message, e.code)
      [] e.op = "log" -> r

RECURSIVE RunEffects(_, _)
RunEffects(r, effects) ==
    IF effects = << >> THEN r
    ELSE RunEffects(ApplyEffect(r, Head(effects)), Tail(effects))

IncreaseBackoff == [ op |-> "increaseBackoffDelay" ]

ResetSuccess == [ op |-> "resetSuccessCount" ]

Assign(patch) == [ op |-> "assign", patch |-> patch ]

FireError(errmsg, errcode) ==
    [ op |-> "fireErrorEvent", message |-> errmsg, code |-> errcode ]

Log == [ op |-> "log" ]

----------------------------------------------------------------------------
\* Transition targets

NoTransition == [ kind |-> "none" ]

Ignored == [ kind |-> "null" ]

Target(state, effects) == [ kind |-> "target", target |-> state, effect |-> effects ]

\* A "*" table whose RECONNECT forgets to reset successCount
StarTransitions_NoReset(event) ==
    CASE event.type = "RECONNECT" -> Target("@auth.backoff", << IncreaseBackoff >>)
      [] event.type = "DISCONNECT" -> Target("@idle.initial", << >>)
      [] OTHER -> NoTransition

\* machine.addTransitions("*", ...)
StarTransitions(event) ==
    CASE event.type = "RECONNECT" ->
            Target("@auth.backoff", << IncreaseBackoff, ResetSuccess >>)
      [] event.type = "DISCONNECT" -> Target("@idle.initial", << >>)
      [] OTHER -> NoTransition

\* The CONNECT target with the two branches exchanged
IdleConnectTarget_Swapped(ctx) ==
    IF ctx.authValue # NullAuth THEN "@auth.busy" ELSE "@connecting.busy"

\* The CONNECT target of the @idle.* states
IdleConnectTarget(ctx) ==
    IF ctx.authValue # NullAuth THEN "@connecting.busy" ELSE "@auth.busy"

\* An "@idle.*" table that also wakes up on WINDOW_GOT_FOCUS
IdleTransitions_FocusWakes(event, ctx) ==
    IF event.type = "CONNECT" THEN Target(IdleConnectTarget(ctx), << >>)
    ELSE IF event.type = "WINDOW_GOT_FOCUS" THEN Target("@connecting.backoff", << >>)
    ELSE NoTransition

\* machine.addTransitions("@idle.*", ...)
IdleTransitions(event, ctx) ==
    IF event.type = "CONNECT" THEN Target(IdleConnectTarget(ctx), << >>)
    ELSE NoTransition

\* machine.addTransitions("@auth.backoff", ...)
AuthBackoffTransitions(event) ==
    IF event.type = "NAVIGATOR_ONLINE"
    THEN Target("@auth.busy", << Assign([ backoffDelay |-> RESET_DELAY ]) >>)
    ELSE NoTransition

\* A "@connecting.backoff" table whose NAVIGATOR_ONLINE keeps the delay
ConnectingBackoffTransitions_KeepsDelay(event) ==
    IF event.type = "NAVIGATOR_ONLINE" THEN Target("@connecting.busy", << >>)
    ELSE NoTransition

\* machine.addTransitions("@connecting.backoff", ...)
ConnectingBackoffTransitions(event) ==
    IF event.type = "NAVIGATOR_ONLINE"
    THEN Target("@connecting.busy", << Assign([ backoffDelay |-> RESET_DELAY ]) >>)
    ELSE NoTransition

\* machine.addTransitions("@idle.zombie", ...)
ZombieTransitions(event) ==
    IF event.type = "WINDOW_GOT_FOCUS" THEN Target("@connecting.backoff", << >>)
    ELSE NoTransition

\* machine.addTransitions("@ok.*", ...)
\* An "@ok.*" table that gives up when the socket closes
OkTransitions_GivesUp(r, event) ==
    CASE event.type = "EXPLICIT_SOCKET_ERROR" ->
            IF /\ r.context.transport # NullTransport
               /\ r.transports[r.context.transport].readyState = "OPEN"
            THEN Ignored
            ELSE Target("@connecting.backoff", << IncreaseBackoff >>)
      [] event.type = "EXPLICIT_SOCKET_CLOSE" -> Target("@idle.failed", << Log >>)
      [] OTHER -> NoTransition

\* An "@ok.*" table with the heartbeat transitions: a ping on focus, a ping
\* or the zombie state when the browser goes offline
OkTransitions_Heartbeat(r, event) ==
    CASE event.type = "EXPLICIT_SOCKET_ERROR" ->
            IF /\ r.context.transport # NullTransport
               /\ r.transports[r.context.transport].readyState = "OPEN"
            THEN Ignored
            ELSE Target("@connecting.backoff", << IncreaseBackoff >>)
      [] event.type = "EXPLICIT_SOCKET_CLOSE" ->
            Target("@connecting.backoff", << IncreaseBackoff, Log >>)
      [] event.type = "WINDOW_GOT_FOCUS" -> Target("@ok.awaiting-pong", << >>)
      [] event.type = "NAVIGATOR_OFFLINE" -> Target("@idle.zombie", << >>)
      [] OTHER -> NoTransition

\* An "@ok.*" table that leaves OK on every socket error
OkTransitions_ErrorLeaves(r, event) ==
    CASE event.type = "EXPLICIT_SOCKET_ERROR" ->
            Target("@connecting.backoff", << IncreaseBackoff >>)
      [] event.type = "EXPLICIT_SOCKET_CLOSE" ->
            Target("@connecting.backoff", << IncreaseBackoff, Log >>)
      [] OTHER -> NoTransition

OkTransitions(r, event) ==
    CASE event.type = "EXPLICIT_SOCKET_ERROR" ->
            IF /\ r.context.transport # NullTransport
               /\ r.transports[r.context.transport].readyState = "OPEN"
            THEN Ignored
            ELSE Target("@connecting.backoff", << IncreaseBackoff >>)
      [] event.type = "EXPLICIT_SOCKET_CLOSE" ->
            Target("@connecting.backoff", << IncreaseBackoff, Log >>)
      [] OTHER -> NoTransition

\* On successful authentication / auth failed
AuthOk(data) == Target("@connecting.busy", << Assign([ authValue |-> data ]) >>)

\* An auth failure handler that reports every failure
AuthFailed_AlwaysReports(reason) ==
    IF reason.kind = "StopRetrying"
    THEN Target("@idle.failed", << Log, FireError(reason.message, -1) >>)
    ELSE Target("@auth.backoff", << IncreaseBackoff, Log, FireError("auth", -1) >>)

\* An auth failure handler that gives up after a timeout
AuthFailed_TimeoutStops(reason) ==
    IF reason.kind \in { "StopRetrying", "timeout" }
    THEN Target("@idle.failed", << Log >>)
    ELSE Target("@auth.backoff", << IncreaseBackoff, Log >>)

AuthFailed(reason) ==
    IF reason.kind = "StopRetrying"
    THEN Target("@idle.failed", << Log, FireError(reason.message, -1) >>)
    ELSE Target("@auth.backoff", << IncreaseBackoff, Log >>)

\* onOk that resets the backoff but does not store the socket
ConnectOk_NoTransport(socket) ==
    Target("@ok.connected", << Assign([ backoffDelay |-> RESET_DELAY ]) >>)

\* onOk that stores the socket but keeps the delay reached
ConnectOk_KeepsDelay(socket) ==
    Target("@ok.connected", << Assign([ transport |-> socket ]) >>)

\* Transport opened / the connection cannot be established
ConnectOk(socket) ==
    Target("@ok.connected",
           << Assign([ transport |-> socket, backoffDelay |-> RESET_DELAY ]) >>)

\* A failure handler that retries after a close event as after any other
ConnectFailed_RetriesOnClose(err) ==
    IF err.kind = "StopRetrying"
    THEN Target("@idle.failed", << Log, FireError(err.message, -1) >>)
    ELSE Target("@auth.backoff", << IncreaseBackoff, Log >>)

ConnectFailed(err) ==
    IF err.kind = "StopRetrying"
    THEN Target("@idle.failed", << Log, FireError(err.message, -1) >>)
    ELSE IF isCloseEvent(err)
    THEN Target("@idle.failed", << Log, FireError(CloseReason(err.code), err.code) >>)
    ELSE Target("@auth.backoff", << IncreaseBackoff, Log >>)

----------------------------------------------------------------------------
\* Entry hooks and their cleanups (connection.ts)

NoTimer == [ armed |-> FALSE, delay |-> 0, target |-> "none" ]

\* An "@idle.*" entry hook that resets nothing
IdleEnter_KeepsCount(r) == r

\* onEnter("@idle.*", resetSuccessCount)
IdleEnter(r) == [ r EXCEPT !.context = resetSuccessCount(@) ]

\* addTimedTransition(state, ctx => ctx.backoffDelay, target): arm / clearTimeout
TimedEnter(r, target) ==
    [ r EXCEPT !.timer = [ armed |-> TRUE, delay |-> r.context.backoffDelay,
                           target |-> target ] ]

TimedCleanup(r) == [ r EXCEPT !.timer = NoTimer ]

\* onEnterAsync("@auth.busy", ...): call authenticate(); abort when exited
\* before the call settled
AuthBusyEnter(r) == [ r EXCEPT !.authCall = "pending" ]

AuthBusyCleanup(r) ==
    IF r.authCall = "pending"
    THEN [ r EXCEPT !.authCall = "none", !.staleAuth = @ + 1 ]
    ELSE r

\* onEnterAsync("@connecting.busy", ...), part 1: createTransport(), subscribe
\* onSocketMessage and the temporary error/close rejecters
ConnectingBusyEnter(r) ==
    [ r EXCEPT !.transports =
                   Append(@, [ NewTransport EXCEPT !.msgSub = TRUE, !.tempSubs = TRUE ]),
               !.attempt = Len(r.transports) + 1 ]

ConnectingBusyCleanup(r) ==
    IF r.attempt # 0 /\ r.transports[r.attempt].phase # "settled"
    THEN [ r EXCEPT !.transports[r.attempt].aborted = TRUE, !.attempt = 0 ]
    ELSE [ r EXCEPT !.attempt = 0 ]

\* onEnter("@ok.*", ...): count the success, schedule onMessage.unpause
OkEnter(r) ==
    [ r EXCEPT !.context = Patch(@, [ successCount |-> r.context.successCount + 1 ]),
               !.unpauseTimer = TRUE,
               !.okSince = 1..Len(r.accepted) ]

\* A cleanup that closes the transport and keeps it in the context
OkCleanup_KeepsTransport(r) ==
    LET closed == teardownTransport(r, r.context.transport) IN
    [ closed EXCEPT !.unpauseTimer = FALSE, !.paused = TRUE ]

\* A cleanup that leaves onMessage as it is
OkCleanup_NoPause(r) ==
    LET closed == teardownTransport(r, r.context.transport) IN
    [ closed EXCEPT !.context = Patch(@, [ transport |-> NullTransport ]),
                    !.unpauseTimer = FALSE ]

\* A cleanup that nulls the transport without closing it
OkCleanup_NoTeardown(r) ==
    [ r EXCEPT !.context = Patch(@, [ transport |-> NullTransport ]),
               !.unpauseTimer = FALSE,
               !.paused = TRUE ]

\* ... and its cleanup: close and null the transport, clearTimeout, pause
OkCleanup(r) ==
    LET closed == teardownTransport(r, r.context.transport) IN
    [ closed EXCEPT !.context = Patch(@, [ transport |-> NullTransport ]),
                    !.unpauseTimer = FALSE,
                    !.paused = TRUE ]

\* Cleanup of onEnter("*", ...): the closure holds the context it was entered
\* with at start(), whose transport is null
StarCleanup(r) == teardownTransport(r, initialContext.transport)

----------------------------------------------------------------------------
\* The state machine engine (lib/fsm)

GroupOf(s) ==
    CASE s \in { "@idle.initial", "@idle.failed", "@idle.zombie" } -> "@idle"
      [] s \in { "@auth.busy", "@auth.backoff" } -> "@auth"
      [] s \in { "@connecting.busy", "@connecting.backoff" } -> "@connecting"
      [] s \in { "@ok.connected", "@ok.awaiting-pong" } -> "@ok"

\* distance(from, to): levels to exit and levels to enter
distance(from, to) ==
    IF from = to THEN << 0, 0 >>
    ELSE IF GroupOf(from) = GroupOf(to) THEN << 1, 1 >>
    ELSE << 2, 2 >>

LeafCleanup(r) ==
    CASE r.currentState \in { "@auth.backoff", "@connecting.backoff" } -> TimedCleanup(r)
      [] r.currentState = "@auth.busy" -> AuthBusyCleanup(r)
      [] r.currentState = "@connecting.busy" -> ConnectingBusyCleanup(r)
      [] OTHER -> r

GroupCleanup(r) ==
    IF GroupOf(r.currentState) = "@ok" THEN OkCleanup(r) ELSE r

\* exit(levels): pop the cleanups, deepest first
exit(r, levels) ==
    LET r1 == IF levels >= 1 THEN LeafCleanup(r) ELSE r
        r2 == IF levels >= 2 THEN GroupCleanup(r1) ELSE r1
    IN  IF levels >= 3 THEN StarCleanup(r2) ELSE r2

GroupEnter(r) ==
    CASE GroupOf(r.currentState) = "@idle" -> IdleEnter(r)
      [] GroupOf(r.currentState) = "@ok" -> OkEnter(r)
      [] OTHER -> r

LeafEnter(r) ==
    CASE r.currentState = "@auth.backoff" -> TimedEnter(r, "@auth.busy")
      [] r.currentState = "@connecting.backoff" -> TimedEnter(r, "@connecting.busy")
      [] r.currentState = "@auth.busy" -> AuthBusyEnter(r)
      [] r.currentState = "@connecting.busy" -> ConnectingBusyEnter(r)
      [] OTHER -> r

\* enter(levels): run the entry hooks, outermost first, then notify didEnterState
enter(r, levels) ==
    LET r1 == IF levels >= 2 THEN GroupEnter(r) ELSE r
        r2 == IF levels >= 1 THEN LeafEnter(r1) ELSE r1
    IN  ConnectivitySubscriber(r2)

Exited(r, r1, levels) ==
    IF levels < 2 THEN [ NoExit EXCEPT !.from = r.currentState ]
    ELSE IF InOk(r.currentState) /\ r.context.transport # NullTransport
    THEN [ from |-> r.currentState, leftOk |-> TRUE, seen |-> r1.context.transport,
           closes |-> r1.transports[r.context.transport].closeCalls ]
    ELSE [ from |-> r.currentState, leftOk |-> InOk(r.currentState),
           seen |-> r1.context.transport, closes |-> 0 ]

\* transition(event, target): exit, switch state, effects, enter
transition(r, target) ==
    IF target.kind # "target" THEN r
    ELSE LET d == distance(r.currentState, target.target)
             r1 == IF d[1] > 0 THEN exit(r, d[1]) ELSE r
             r2 == [ r1 EXCEPT !.currentState = target.target,
                               !.effectLog = Exited(r, r1, d[1]) ]
             r3 == RunEffects(r2, target.effect)
         IN  IF d[2] > 0 THEN enter(r3, d[2]) ELSE r3

\* allowedTransitions.get(currentState)?.get(event.type)
getTargetFn(r, event) ==
    LET star == StarTransitions(event)
        own == CASE GroupOf(r.currentState) = "@ok" -> OkTransitions(r, event)
                 [] r.currentState = "@idle.zombie" /\ event.type = "WINDOW_GOT_FOCUS" ->
                        ZombieTransitions(event)
                 [] GroupOf(r.currentState) = "@idle" -> IdleTransitions(event, r.context)
                 [] r.currentState = "@auth.backoff" -> AuthBackoffTransitions(event)
                 [] r.currentState = "@connecting.backoff" ->
                        ConnectingBackoffTransitions(event)
                 [] OTHER -> NoTransition
    IN  IF star.kind # "none" THEN star ELSE own

\* send(event): ignored when stopped or when the state has no such transition
send(r, event) ==
    IF ~r.running THEN r
    ELSE transition(r, getTargetFn(r, event))

\* stop(): run every cleanup, then the machine has no current state
stop(r) ==
    LET r1 == exit(r, 3) IN
    [ r1 EXCEPT !.running = FALSE, !.currentState = "stopped",
                !.effectLog = Exited(r, r1, 3) ]

----------------------------------------------------------------------------
\* Channels (channel.ts) and the channel registry of the client (client.ts)

NoField == "none"

ControlFrame(op, id, pl) ==
    [ t |-> "control", op |-> op, c |-> id, p |-> NoField, pl |-> pl ]

\* encode(state) of the channel's local state, encode({event, data}) of a broadcast
EncodedState == "encode(state)"

EncodedEvent == "encode({event,data})"

DataFrame(id) ==
    [ t |-> "data", op |-> NoField, c |-> id, p |-> NoField, pl |-> EncodedEvent ]

\* createChannel(options) that announces nothing
createChannel_Silent(r, id) == r

\* createChannel(options): send the channel_join control frame
createChannel(r, id) ==
    sendMessages(r, << ControlFrame("channel_join", id, NoField) >>)

\* syncState()
syncState(r, ch) ==
    sendMessages(r, << ControlFrame("peer_state", r.infos[ch].id, EncodedState) >>)

\* events.<source>.notify(payload)
ChannelNotify(r, ch, source, event) ==
    [ r EXCEPT !.notified = Append(@, [ ch |-> ch, source |-> source, p |-> event.p ]) ]

\* A 'joined' branch that also syncs the state
HandleJoined_AlsoSyncs(r, ch) ==
    syncState(sendMessages(r, << ControlFrame("peer_online", r.infos[ch].id, NoField) >>),
              ch)

\* The 'joined' branch of handleEvent
HandleJoined(r, ch) ==
    sendMessages(r, << ControlFrame("peer_online", r.infos[ch].id, NoField) >>)

\* handleEvent(eventType, event)
handleEvent(r, ch, eventType, event) ==
    CASE eventType = "joined" -> HandleJoined(r, ch)
      [] eventType = "data" -> ChannelNotify(r, ch, "data", event)
      [] eventType = "peer_online" ->
            ChannelNotify(syncState(r, ch), ch, "peerOnline", event)
      [] eventType = "peer_offline" -> ChannelNotify(r, ch, "peerOffline", event)
      [] eventType = "peer_state" -> ChannelNotify(r, ch, "peerState", event)
      [] OTHER -> r

\* broadcast(event, data)
broadcast(r, ch) == sendMessages(r, << DataFrame(r.infos[ch].id) >>)

\* getChannel(channelId): 0 stands for null
getChannel(r, channelId) == r.channelsById[channelId]

\* A uid test that lets every peer through
IsOtherPeer_Any(p) == TRUE

\* The uid test of the peer_online / peer_offline branches
IsOtherPeer(p) == p # OwnUid

\* handleServerMessage(data), on the decoded frame
handleServerMessage(r, event) ==
    IF event.op = "channel_join"
    THEN IF getChannel(r, event.c) # 0
         THEN handleEvent(r, getChannel(r, event.c), "joined", event)
         ELSE r
    ELSE
    LET r1 == IF /\ event.op = "peer_online"
                 /\ IsOtherPeer(event.p)
                 /\ getChannel(r, event.c) # 0
              THEN handleEvent(r, getChannel(r, event.c), "peer_online", event)
              ELSE r
        r2 == IF /\ event.op = "peer_offline"
                 /\ IsOtherPeer(event.p)
                 /\ getChannel(r1, event.c) # 0
              THEN handleEvent(r1, getChannel(r1, event.c), "peer_offline", event)
              ELSE r1
    IN  IF event.t = "data"
        THEN IF getChannel(r2, event.c) # 0
             THEN handleEvent(r2, getChannel(r2, event.c), "data", event)
             ELSE r2
        ELSE IF event.op = "peer_state" /\ getChannel(r2, event.c) # 0
        THEN handleEvent(r2, getChannel(r2, event.c), "peer_state", event)
        ELSE r2

\* teardownChannel(channel) that destroys the channel but keeps the entry
teardownChannel_KeepsEntry(r, ch) ==
    [ r EXCEPT !.infos[ch].destroyed = @ + 1 ]

\* teardownChannel(channel): delete the registry entry, destroy the channel
teardownChannel(r, ch) ==
    [ r EXCEPT !.channelsById[r.infos[ch].id] = 0,
               !.infos[ch].destroyed = @ + 1 ]

\* leaseChannel(info): a new leave function, added to info.unsubs
leaseChannel(r, ch) ==
    [ r EXCEPT !.leases = Append(@, ch),
               !.infos[ch].unsubs = @ \cup { Len(r.leases) + 1 } ]

\* A leave function without the "already called" test
leave_NoGuard(r, l) ==
    LET ch == r.leases[l]
        r1 == [ r EXCEPT !.infos[ch].unsubs = @ \ { l } ]
    IN  IF r1.infos[ch].unsubs = { } THEN teardownChannel(r1, ch) ELSE r1

\* The leave function of lease l
leave(r, l) ==
    LET ch == r.leases[l] IN
    IF l \notin r.infos[ch].unsubs
    THEN [ r EXCEPT !.warnings = @ + 1 ]
    ELSE LET r1 == [ r EXCEPT !.infos[ch].unsubs = @ \ { l } ]
         IN  IF r1.infos[ch].unsubs = { } THEN teardownChannel(r1, ch) ELSE r1

\* join(channelId)
join(r, channelId) ==
    IF r.channelsById[channelId] # 0
    THEN leaseChannel(r, r.channelsById[channelId])
    ELSE LET r1 == createChannel(r, channelId)
             ch == Len(r1.infos) + 1
             r2 == [ r1 EXCEPT !.infos = Append(@, [ id |-> channelId, unsubs |-> { },
                                                     destroyed |-> 0 ]),
                               !.channelsById[channelId] = ch ]
         IN  leaseChannel(r2, ch)

----------------------------------------------------------------------------
\* The onMessage event source (lib/EventSource): pause, notify, unpause

onMessageNotify(r, data) ==
    IF r.paused THEN [ r EXCEPT !.pauseQueue = Append(@, data) ]
    ELSE handleServerMessage(r, data)

RECURSIVE Drain(_, _)
Drain(r, queue) ==
    IF queue = << >> THEN r
    ELSE Drain(handleServerMessage(r, Head(queue)), Tail(queue))

onMessageUnpause(r) ==
    Drain([ r EXCEPT !.paused = FALSE, !.pauseQueue = << >> ], r.pauseQueue)

----------------------------------------------------------------------------
\* Transport callbacks (WS wrapper) and the @connecting.busy work

\* reject(event) of part 1: record the premature event, clear the message
\* subscribers, reject the pending promise
Reject(tr, event) ==
    [ tr EXCEPT !.captured = event,
                !.msgSub = FALSE,
                !.phase = IF @ = "pending" THEN "rejected" ELSE @,
                !.reason = IF tr.phase = "pending" THEN event ELSE @ ]

\* ws.onopen: readyState OPEN, then the open subscriber of part 2: subscribe
\* onSocketError / onSocketClose and resolve the promise
WsOnOpen(r, t) ==
    [ r EXCEPT !.transports[t] =
        [ @ EXCEPT !.ws = "open", !.readyState = "OPEN", !.okSubs = TRUE,
                   !.phase = IF @ = "pending" THEN "resolved" ELSE @ ] ]

\* ws.onclose: readyState CLOSED, then the close subscribers in subscription order
WsOnClose(r, t, code) ==
    LET tr == r.transports[t]
        r1 == [ r EXCEPT !.transports[t] =
                  [ @ EXCEPT !.ws = "closed", !.readyState = "CLOSED" ] ]
        r2 == IF tr.tempSubs
              THEN [ r1 EXCEPT !.transports[t] = Reject(@, CloseEvent(code)) ]
              ELSE r1
    IN  IF tr.okSubs
        THEN send(r2, [ type |-> "EXPLICIT_SOCKET_CLOSE", code |-> code ])
        ELSE r2

\* ws.onerror: the error subscribers in subscription order
WsOnError(r, t) ==
    LET tr == r.transports[t]
        r1 == IF tr.tempSubs
              THEN [ r EXCEPT !.transports[t] = Reject(@, ErrorEvent) ]
              ELSE r
    IN  IF tr.okSubs
        THEN send(r1, [ type |-> "EXPLICIT_SOCKET_ERROR" ])
        ELSE r1

\* ws.onmessage: onSocketMessage, when still subscribed
WsOnMessage(r, t, frame) ==
    LET r1 == [ r EXCEPT !.inbound = @ + 1 ] IN
    IF r.transports[t].msgSub THEN onMessageNotify(r1, frame) ELSE r1

\* A part 3 that returns the socket whatever was captured
ConnectContinuation_IgnoresPremature(r, t) ==
    LET tr == r.transports[t]
        done == [ r EXCEPT !.transports[t].phase = "settled",
                           !.transports[t].tempSubs =
                               IF tr.phase = "resolved" THEN FALSE ELSE @ ]
    IN  IF tr.phase = "resolved" /\ ~tr.aborted
        THEN transition(done, ConnectOk(t))
        ELSE LET torn == teardownTransport(done, t)
             IN  IF tr.aborted THEN torn
                 ELSE transition(torn, ConnectFailed(tr.reason))

\* A work without the .catch that tears the unconfirmed socket down
ConnectContinuation_NoCatch(r, t) ==
    LET tr == r.transports[t]
        done == [ r EXCEPT !.transports[t].phase = "settled",
                           !.transports[t].tempSubs =
                               IF tr.phase = "resolved" THEN FALSE ELSE @ ]
    IN  IF tr.phase = "resolved" /\ ~tr.aborted /\ tr.captured = NoEvent
        THEN transition(done, ConnectOk(t))
        ELSE LET failure == IF tr.phase = "rejected" THEN tr.reason ELSE tr.captured
             IN  IF tr.aborted THEN done
                 ELSE transition(done, ConnectFailed(failure))

\* Part 3 and the .catch of the work, then the machine's own continuation,
\* which transitions unless the signal was aborted
ConnectContinuation(r, t) ==
    LET tr == r.transports[t]
        done == [ r EXCEPT !.transports[t].phase = "settled",
                           !.transports[t].tempSubs =
                               IF tr.phase = "resolved" THEN FALSE ELSE @ ]
    IN  IF tr.phase = "resolved" /\ ~tr.aborted /\ tr.captured = NoEvent
        THEN transition(done, ConnectOk(t))
        ELSE LET failure == IF tr.phase = "rejected" THEN tr.reason ELSE tr.captured
                 torn == teardownTransport(done, t)
             IN  IF tr.aborted THEN torn
                 ELSE transition(torn, ConnectFailed(failure))

\* The authenticate() delegate settles
AuthSettled(r, target) ==
    transition([ r EXCEPT !.authCall = "none" ], target)

StopRetrying(message) == [ kind |-> "StopRetrying", message |-> message ]

AuthFailures ==
    { StopRetrying("disabled"), [ kind |-> "error" ], [ kind |-> "timeout" ] }

\* What onOk / onFail make of every way authenticate() can settle
AuthTargets ==
    { AuthOk("no_auth") } \cup { AuthFailed(reason) : reason \in AuthFailures }

\* A continuation that acts on the result whatever the signal says
StaleAuthSettled_Acts(r, target) ==
    transition([ r EXCEPT !.staleAuth = @ - 1 ], target)

\* The authenticate() call of an entry that was exited settles: its signal
\* is aborted, so the result is dropped
StaleAuthSettled(r, target) == [ r EXCEPT !.staleAuth = @ - 1 ]

ServerFrames ==
    [ t : { "control", "data" },
      op : { NoField, "channel_join", "peer_online", "peer_offline", "peer_state" },
      c : ChannelIds, p : Peers, pl : { NoField } ]

----------------------------------------------------------------------------
\* The MessagePack codec (index.ts): values, numbers and bytes
\*
\* A JavaScript value is a record with a type field. An integer is kept as a
\* sign and the big-endian bytes of its magnitude (no leading zero byte), so
\* that 64-bit values fit; only integers a double holds exactly are drawn.
\* The seconds passed to appendInt64 by appendDate may have a fractional
\* part: frac says so, mag holds the truncated magnitude.

Null == [ type |-> "null" ]

Undefined == [ type |-> "undefined" ]

Bool(b) == [ type |-> "boolean", b |-> b ]

Number(neg, mag) == [ type |-> "int", neg |-> neg, mag |-> mag, frac |-> FALSE ]

\* A number that is no integer, by the bytes setFloat64 writes
Float(bits) == [ type |-> "float", bits |-> bits ]

NaN == Float(<< 127, 248, 0, 0, 0, 0, 0, 0 >>)

String(chars) == [ type |-> "string", chars |-> chars ]

Uint8Array(bytes) == [ type |-> "bin", bytes |-> bytes ]

Array(items) == [ type |-> "array", items |-> items ]

Object(entries) == [ type |-> "object", entries |-> entries ]

Date(ms) == [ type |-> "date", ms |-> ms ]

\* new Date(NaN)
InvalidDate == [ type |-> "invalid date" ]

\* A date more than MaxSeconds away from the epoch; these are not told apart
FarDate == [ type |-> "far date" ]

Ext(t, data) == [ type |-> "ext", ext |-> t, bytes |-> data ]

RECURSIVE Strip(_)
Strip(bytes) ==
    IF bytes # << >> /\ Head(bytes) = 0 THEN Strip(Tail(bytes)) ELSE bytes

RECURSIVE Pad(_, _)
Pad(bytes, n) == IF Len(bytes) >= n THEN bytes ELSE Pad(<< 0 >> \o bytes, n)

Repeat(b, n) == [ i \in 1..n |-> b ]

\* a <= b for two magnitudes
Leq(a, b) ==
    \/ Len(a) < Len(b)
    \/ /\ Len(a) = Len(b)
       /\ \/ a = b
          \/ \E i \in 1..Len(a) :
                /\ a[i] < b[i]
                /\ \A j \in 1..(i - 1) : a[j] = b[j]

\* bytes - 1 and bytes + 1 at a fixed width, wrapping around
RECURSIVE Dec(_)
Dec(bytes) ==
    IF bytes = << >> THEN << >>
    ELSE LET n == Len(bytes) IN
         IF bytes[n] > 0 THEN [ bytes EXCEPT ![n] = @ - 1 ]
         ELSE Dec(SubSeq(bytes, 1, n - 1)) \o << 255 >>

RECURSIVE Inc(_)
Inc(bytes) ==
    IF bytes = << >> THEN << >>
    ELSE LET n == Len(bytes) IN
         IF bytes[n] < 255 THEN [ bytes EXCEPT ![n] = @ + 1 ]
         ELSE Inc(SubSeq(bytes, 1, n - 1)) \o << 0 >>

\* ~x, byte by byte
Not(bytes) == [ i \in 1..Len(bytes) |-> 255 - bytes[i] ]

RECURSIVE NatBytes(_)
NatBytes(n) == IF n = 0 THEN << >> ELSE NatBytes(n \div 256) \o << n % 256 >>

RECURSIVE ToNat(_)
ToNat(bytes) ==
    IF bytes = << >> THEN 0
    ELSE ToNat(SubSeq(bytes, 1, Len(bytes) - 1)) * 256 + bytes[Len(bytes)]

\* The bytes [data >>> 8 * (n - 1), ..., data >>> 8, data] stored into a
\* Uint8Array: the low n bytes of the two's complement of an integer
LowBytes(data, n) ==
    LET wide == Pad(data.mag, n)
        low == SubSeq(wide, Len(wide) - n + 1, Len(wide))
    IN  IF data.neg THEN Inc(Not(low)) ELSE low

\* encodeUtf8(s): TextEncoder.encode, for code points below 0x800
RECURSIVE encodeUtf8(_)
encodeUtf8(chars) ==
    IF chars = << >> THEN << >>
    ELSE LET c == Head(chars) IN
         (IF c < 128 THEN << c >>
          ELSE << 192 + (c \div 64), 128 + (c % 64) >>) \o encodeUtf8(Tail(chars))

\* decodeUtf8(bytes): TextDecoder.decode, which replaces every malformed
\* sequence by U+FFFD; one- and two-byte sequences are decoded
RECURSIVE decodeUtf8(_)
decodeUtf8(bytes) ==
    IF bytes = << >> THEN << >>
    ELSE LET b == Head(bytes) IN
         IF b < 128 THEN << b >> \o decodeUtf8(Tail(bytes))
         ELSE IF /\ b >= 194 /\ b <= 223 /\ Len(bytes) >= 2
                 /\ bytes[2] >= 128 /\ bytes[2] <= 191
         THEN << (b - 192) * 64 + (bytes[2] - 128) >> \o decodeUtf8(Tail(Tail(bytes)))
         ELSE << 65533 >> \o decodeUtf8(Tail(bytes))

\* appendInt64(value): the high and low words as eight bytes. A negative
\* value is incremented, its absolute value split and truncated, then
\* complemented
appendInt64(value) ==
    IF ~value.neg THEN LowBytes([ value EXCEPT !.neg = FALSE ], 8)
    ELSE LET wide == Pad(value.mag, 8)
             abs == IF value.frac /\ Strip(wide) = << >> THEN wide ELSE Dec(wide)
         IN  Not(abs)

\* appendNumber(data)
appendNumber(data) ==
    IF data.type = "float" THEN << 203 >> \o data.bits
    ELSE LET pos == ~data.neg
             m == data.mag
         IN  IF pos /\ Leq(m, << 127 >>) THEN LowBytes(data, 1)
             ELSE IF ~pos /\ Leq(m, << 32 >>) THEN LowBytes(data, 1)
             ELSE IF pos /\ Leq(m, << 255 >>) THEN << 204 >> \o LowBytes(data, 1)
             ELSE IF (~pos /\ Leq(m, << 128 >>)) \/ (pos /\ Leq(m, << 127 >>))
             THEN << 208 >> \o LowBytes(data, 1)
             ELSE IF pos /\ Leq(m, << 255, 255 >>)
             THEN << 205 >> \o LowBytes(data, 2)
             ELSE IF (~pos /\ Leq(m, << 128, 0 >>)) \/ (pos /\ Leq(m, << 127, 255 >>))
             THEN << 209 >> \o LowBytes(data, 2)
             ELSE IF pos /\ Leq(m, Repeat(255, 4))
             THEN << 206 >> \o LowBytes(data, 4)
             ELSE IF \/ ~pos /\ Leq(m, << 128, 0, 0, 0 >>)
                     \/ pos /\ Leq(m, << 127, 255, 255, 255 >>)
             THEN << 210 >> \o LowBytes(data, 4)
             ELSE IF pos /\ Leq(m, Repeat(255, 8))
             THEN << 211 >> \o LowBytes(data, 8)
             ELSE IF \/ ~pos /\ Leq(m, << 128 >> \o Repeat(0, 7))
                     \/ pos /\ Leq(m, << 127 >> \o Repeat(255, 7))
             THEN << 211 >> \o appendInt64(data)
             ELSE IF ~pos THEN << 211, 128 >> \o Repeat(0, 7)
             ELSE << 207 >> \o Repeat(255, 8)

\* The length header of a string, array, byte array or map
LengthBytes(length, n) == Pad(NatBytes(length), n)

\* appendString(data)
appendString(data) ==
    LET bytes == encodeUtf8(data.chars)
        length == Len(bytes)
    IN  (IF length <= 31 THEN << 160 + length >>
         ELSE IF length <= 255 THEN << 217 >> \o LengthBytes(length, 1)
         ELSE IF length <= 65535 THEN << 218 >> \o LengthBytes(length, 2)
         ELSE << 219 >> \o LengthBytes(length, 4)) \o bytes

\* appendBinArray(data)
appendBinArray(data) ==
    LET length == Len(data.bytes) IN
    (IF length <= 15 THEN << 196 >> \o LengthBytes(length, 1)
     ELSE IF length <= 65535 THEN << 197 >> \o LengthBytes(length, 2)
     ELSE << 198 >> \o LengthBytes(length, 4)) \o data.bytes

\* appendDate(data): sec = getTime() / 1000, which has a fractional part
\* unless getMilliseconds() is 0
appendDate(data) ==
    LET millis == data.ms % 1000
        whole == (IF data.ms >= 0 THEN data.ms ELSE 0 - data.ms) \div 1000
        sec == [ type |-> "int", neg |-> data.ms < 0, mag |-> NatBytes(whole),
                 frac |-> millis # 0 ]
        ns == millis * 1000000
    IN  IF millis = 0 /\ ~sec.neg /\ Leq(sec.mag, Repeat(255, 4))
        THEN << 214, 255 >> \o LowBytes(sec, 4)
        ELSE IF ~sec.neg /\ Leq(sec.mag, << 3 >> \o Repeat(255, 4))
        THEN << 215, 255, (ns \div 4194304) % 256, (ns \div 16384) % 256,
                (ns \div 64) % 256,
                (ns % 64) * 4 + Pad(sec.mag, 5)[Len(Pad(sec.mag, 5)) - 4] >>
             \o LowBytes(sec, 4)
        ELSE << 199, 12, 255 >> \o LengthBytes(ns, 4) \o appendInt64(sec)

\* append(data) with appendArray(data) and appendObject(data); a typed
\* array other than Uint8Array is not modelled
RECURSIVE append(_)

RECURSIVE appendItems(_)
appendItems(items) ==
    IF items = << >> THEN << >>
    ELSE append(Head(items)) \o appendItems(Tail(items))

\* keys.forEach of appendObject: a key whose value is undefined is skipped
RECURSIVE appendEntries(_)
appendEntries(entries) ==
    IF entries = << >> THEN << >>
    ELSE LET e == Head(entries) IN
         (IF e.value = Undefined THEN << >>
          ELSE append(String(e.key)) \o append(e.value))
             \o appendEntries(Tail(entries))

appendArray(data) ==
    LET length == Len(data.items) IN
    (IF length <= 15 THEN << 144 + length >>
     ELSE IF length <= 65535 THEN << 220 >> \o LengthBytes(length, 2)
     ELSE << 221 >> \o LengthBytes(length, 4)) \o appendItems(data.items)

appendObject(data) ==
    LET length == Len(data.entries) IN
    (IF length <= 15 THEN << 128 + length >>
     ELSE IF length <= 65535 THEN << 222 >> \o LengthBytes(length, 2)
     ELSE << 223 >> \o LengthBytes(length, 4)) \o appendEntries(data.entries)

append(data) ==
    CASE data.type \in { "undefined", "null" } -> << 192 >>
      [] data.type = "boolean" -> IF data.b THEN << 195 >> ELSE << 194 >>
      [] data.type \in { "int", "float" } -> appendNumber(data)
      [] data.type = "string" -> appendString(data)
      [] data.type = "date" -> appendDate(data)
      [] data.type = "array" -> appendArray(data)
      [] data.type = "bin" -> appendBinArray(data)
      [] data.type = "object" -> appendObject(data)

\* new Uint8Array(128), doubled by appendByte and appendBytes until the
\* bytes fit
RECURSIVE Grown(_, _)
Grown(newLength, length) ==
    IF newLength < length THEN Grown(newLength * 2, length) ELSE newLength

\* A Uint8Array as decode sees it: its bytes and the bytes after them in
\* its buffer
View(bytes, after) == [ bytes |-> bytes, after |-> after ]

\* msgpack.encode(data): array.subarray(0, length) of the zero-filled buffer
encode(data) ==
    LET bytes == append(data) IN
    View(bytes, Repeat(0, Grown(InitialLength, Len(bytes)) - Len(bytes)))

----------------------------------------------------------------------------
\* msgpack.decode (index.ts). The array is a view: its bytes, and the bytes
\* that follow them in its buffer, which only a DataView reaches. pos counts
\* from 0 as in the source. NoByte is array[pos] past the end (undefined);
\* NaNSize is a length or a position that is NaN.

NoByte == 0 - 1

NaNSize == 0 - 2

ByteAt(array, pos) ==
    IF pos >= 0 /\ pos < Len(array.bytes) THEN array.bytes[pos + 1] ELSE NoByte

\* pos + n, NaN when either is
Advance(pos, n) == IF pos = NaNSize \/ n = NaNSize THEN NaNSize ELSE pos + n

\* array.subarray(pos, pos + size) and array.slice(pos, pos + size)
Subarray(array, pos, size) ==
    IF pos = NaNSize \/ size = NaNSize \/ pos >= Len(array.bytes) THEN << >>
    ELSE SubSeq(array.bytes, pos + 1,
                IF pos + size > Len(array.bytes) THEN Len(array.bytes)
                ELSE pos + size)

Threw == [ threw |-> TRUE, value |-> Undefined, pos |-> NaNSize ]

Return(value, pos) == [ threw |-> FALSE, value |-> value, pos |-> pos ]

\* The bytes readUInt(size) and readInt(size) add up
Taken(array, pos, size) == [ i \in 1..size |-> ByteAt(array, pos + i - 1) ]

\* readUInt(size): NaN when a byte is missing
readUInt(array, pos, size) ==
    LET bytes == Taken(array, pos, size) IN
    Return(IF \E i \in 1..size : bytes[i] = NoByte THEN NaN
           ELSE Number(FALSE, Strip(bytes)),
           Advance(pos, size))

\* readInt(size): the first byte is masked, so a missing first byte counts
\* as 0; any other missing byte makes the value NaN
readInt(array, pos, size) ==
    LET taken == Taken(array, pos, size)
        bytes == [ i \in 1..size |->
                     IF i = 1 /\ taken[i] = NoByte THEN 0 ELSE taken[i] ]
    IN  Return(IF \E i \in 2..size : bytes[i] = NoByte THEN NaN
               ELSE IF bytes[1] >= 128
               THEN Number(TRUE, Strip(Inc(Not(bytes))))
               ELSE Number(FALSE, Strip(bytes)),
               Advance(pos, size))

\* A length that readUInt returned, as a count of bytes or items; from
\* 2^24 on it is more than any array here holds
SizeOf(value) ==
    IF value = NaN THEN NaNSize
    ELSE IF Len(value.mag) > 3 THEN 2 ^ 24
    ELSE ToNat(value.mag)

\* if (size < 0) size = readUInt(lengthSize)
SizeRead(array, pos, size, lengthSize) ==
    IF size # NaNSize /\ size < 0
    THEN LET length == readUInt(array, pos, lengthSize) IN
         [ size |-> SizeOf(length.value), pos |-> length.pos ]
    ELSE [ size |-> size, pos |-> pos ]

\* readFloat(size): new DataView(array.buffer, pos + array.byteOffset, size)
\* throws only when it reaches past the end of the buffer
readFloat(array, pos, size) ==
    LET buffer == array.bytes \o array.after IN
    IF pos + size > Len(buffer) THEN Threw
    ELSE Return(IF size = 8 THEN Float(SubSeq(buffer, pos + 1, pos + 8))
                ELSE [ type |-> "float32", bits |-> SubSeq(buffer, pos + 1, pos + 4) ],
                pos + size)

\* readBin(size, lengthSize)
readBin(array, pos, size, lengthSize) ==
    LET s == SizeRead(array, pos, size, lengthSize) IN
    Return(Uint8Array(Subarray(array, s.pos, s.size)), Advance(s.pos, s.size))

\* readStr(size, lengthSize)
readStr(array, pos, size, lengthSize) ==
    LET s == SizeRead(array, pos, size, lengthSize) IN
    Return(String(decodeUtf8(Subarray(array, s.pos, s.size))),
           Advance(s.pos, s.size))

\* new Date(sec * 1000 + ns / 1000000), which drops the fraction of a
\* millisecond towards zero; ns is given by its four bytes
NewDate(sec, ns) ==
    LET q == ToNat(SubSeq(ns, 1, 3)) * 4 + ns[4] \div 64
        whole == ns[4] % 64 = 0 /\ q % 15625 = 0
        ms == (IF sec.neg THEN 0 - ToNat(sec.mag) ELSE ToNat(sec.mag)) * 1000
                  + q \div 15625
    IN  IF sec = NaN THEN InvalidDate
        ELSE IF ~Leq(sec.mag, NatBytes(MaxSeconds)) THEN FarDate
        ELSE Date(IF ms < 0 /\ ~whole THEN ms + 1 ELSE ms)

\* readExtDate(data); pos is the position after data, from where the twelve
\* byte form steps back to read the seconds again with readInt(8)
readExtDate(array, pos, data) ==
    IF Len(data) = 4
    THEN Return(NewDate(Number(FALSE, Strip(data)), << 0, 0, 0, 0 >>), pos)
    ELSE IF Len(data) = 8
    THEN Return(NewDate(Number(FALSE, Strip(<< data[4] % 4 >> \o SubSeq(data, 5, 8))),
                        Pad(NatBytes(data[1] * 4194304 + data[2] * 16384
                                         + data[3] * 64 + data[4] \div 4), 4)),
                pos)
    ELSE IF Len(data) = 12
    THEN LET sec == readInt(array, Advance(pos, 0 - 8), 8) IN
         Return(NewDate(sec.value, SubSeq(data, 1, 4)), sec.pos)
    ELSE Threw

\* readExt(size, lengthSize)
readExt(array, pos, size, lengthSize) ==
    LET s == SizeRead(array, pos, size, lengthSize)
        type == readUInt(array, s.pos, 1)
        data == readBin(array, type.pos, s.size, 0)
    IN  IF type.value = Number(FALSE, << 255 >>)
        THEN readExtDate(array, data.pos, data.value.bytes)
        ELSE Return(Ext(type.value, data.value.bytes), data.pos)

\* data[key] = value: the key of a map read here is always a string
Put(data, key, value) ==
    IF \E i \in 1..Len(data) : data[i].key = key.chars
    THEN [ i \in 1..Len(data) |->
             IF data[i].key = key.chars THEN [ key |-> key.chars, value |-> value ]
             ELSE data[i] ]
    ELSE Append(data, [ key |-> key.chars, value |-> value ])

\* read() with readArray(size, lengthSize) and readMap(size, lengthSize)
RECURSIVE read(_, _)

\* while (size-- > 0) data.push(read())
RECURSIVE readItems(_, _, _, _)
readItems(array, pos, size, data) ==
    IF size <= 0 THEN Return(Array(data), pos)
    ELSE LET item == read(array, pos) IN
         IF item.threw THEN Threw
         ELSE readItems(array, item.pos, size - 1, Append(data, item.value))

\* while (size-- > 0) { key = read(); data[key] = read() }
RECURSIVE readEntries(_, _, _, _)
readEntries(array, pos, size, data) ==
    IF size <= 0 THEN Return(Object(data), pos)
    ELSE LET key == read(array, pos) IN
         IF key.threw THEN Threw
         ELSE LET value == read(array, key.pos) IN
              IF value.threw THEN Threw
              ELSE readEntries(array, value.pos, size - 1,
                               Put(data, key.value, value.value))

readArray(array, pos, size, lengthSize) ==
    LET s == SizeRead(array, pos, size, lengthSize) IN
    readItems(array, s.pos, s.size, << >>)

readMap(array, pos, size, lengthSize) ==
    LET s == SizeRead(array, pos, size, lengthSize) IN
    readEntries(array, s.pos, s.size, << >>)

read(array, pos) ==
    LET byte == ByteAt(array, pos)
        next == Advance(pos, 1)
    IN  CASE byte \in 0..127 -> Return(Number(FALSE, Strip(<< byte >>)), next)
          [] byte \in 128..143 -> readMap(array, next, byte - 128, 0)
          [] byte \in 144..159 -> readArray(array, next, byte - 144, 0)
          [] byte \in 160..191 -> readStr(array, next, byte - 160, 0)
          [] byte = 192 -> Return(Null, next)
          [] byte = 193 -> Threw
          [] byte = 194 -> Return(Bool(FALSE), next)
          [] byte = 195 -> Return(Bool(TRUE), next)
          [] byte \in 196..198 -> readBin(array, next, 0 - 1, 2 ^ (byte - 196))
          [] byte \in 199..201 -> readExt(array, next, 0 - 1, 2 ^ (byte - 199))
          [] byte \in 202..203 -> readFloat(array, next, 4 * (byte - 201))
          [] byte \in 204..207 -> readUInt(array, next, 2 ^ (byte - 204))
          [] byte \in 208..211 -> readInt(array, next, 2 ^ (byte - 208))
          [] byte \in 212..216 -> readExt(array, next, 2 ^ (byte - 212), 0)
          [] byte \in 217..219 -> readStr(array, next, 0 - 1, 2 ^ (byte - 217))
          [] byte \in 220..221 -> readArray(array, next, 0 - 1, 2 ^ (byte - 219))
          [] byte \in 222..223 -> readMap(array, next, 0 - 1, 2 ^ (byte - 221))
          [] byte \in 224..255 -> Return(Number(TRUE, << 256 - byte >>), next)
          [] OTHER -> Threw

\* msgpack.decode(array)
decode(array) ==
    IF Len(array.bytes) = 0 THEN [ threw |-> TRUE, value |-> Undefined ]
    ELSE LET r == read(array, 0) IN [ threw |-> r.threw, value |-> r.value ]

\* The codec runs: the value drawn, the array handed to decode, what decode
\* did (nothing yet, or one result), where the array comes from and how
\* deep it has been nested
Fresh ==
    [ value |-> Undefined, array |-> View(<< >>, << >>), decoded |-> << >>,
      origin |-> "none", depth |-> 0 ]

----------------------------------------------------------------------------
\* The Datagram transport (transport/WebTransport.ts, class WT). The session
\* is the browser's WebTransport object: its ready and closed promises and
\* the pending read of its datagram reader. subs holds the events (close,
\* error, message) that have a subscriber.

TransportEvents == { "close", "error", "message" }

\* new WT(address): readyState CONNECTING, nothing subscribed, both promises
\* of the session pending. atClose is the subscriber lists as they were when
\* the close of the session was last initiated; delivered is what the last
\* step delivered to subscribers
NewDatagram ==
    [ readyState |-> "CONNECTING", ready |-> "pending", closed |-> "pending",
      reading |-> FALSE, writer |-> FALSE, closeCalls |-> 0,
      subs |-> { }, atClose |-> { }, delivered |-> << >> ]

\* events.<event>.notify(...)
WtNotify(d, event) ==
    IF event \in d.subs THEN [ d EXCEPT !.delivered = Append(@, event) ] ELSE d

\* events.<event>.subscribe(callback), by the owner of the transport
WtSubscribe(d, event) == [ d EXCEPT !.subs = @ \cup { event } ]

\* wt.ready.then: readyState OPEN, notify open, take the writer, start reading
WtOnReady(d) ==
    [ d EXCEPT !.ready = "resolved", !.readyState = "OPEN", !.writer = TRUE,
               !.reading = TRUE ]

\* wt.ready.catch: notify error
WtOnReadyRejected(d) == WtNotify([ d EXCEPT !.ready = "rejected" ], "error")

\* reader.read().then / .catch: done notifies close, a datagram notifies
\* message and reads on, a rejection notifies error
WtOnRead(d, result) ==
    CASE result = "done" -> WtNotify([ d EXCEPT !.reading = FALSE ], "close")
      [] result = "value" -> WtNotify(d, "message")
      [] result = "rejected" -> WtNotify([ d EXCEPT !.reading = FALSE ], "error")

\* wt.closed.then: readyState CLOSED, notify close
WtOnClosed(d) ==
    WtNotify([ d EXCEPT !.closed = "resolved", !.readyState = "CLOSED" ], "close")

\* wt.closed.catch: console.error only
WtOnClosedRejected(d) == [ d EXCEPT !.closed = "rejected" ]

\* WT.close(): this.wt?.close()
WtClose(d) == [ d EXCEPT !.closeCalls = @ + 1, !.atClose = d.subs ]

----------------------------------------------------------------------------
\* Initial state: createClient() has constructed and started the machine,
\* subscribed its handlers and called managedSocket.connect()

Started ==
    [ currentState |-> "@idle.initial", running |-> TRUE, context |-> initialContext,
      lastStatus |-> "initial", timer |-> NoTimer, authCall |-> "none",
      staleAuth |-> 0, transports |-> << >>, attempt |-> 0,
      paused |-> TRUE, pauseQueue |-> << >>, unpauseTimer |-> FALSE,
      errors |-> << >>, effectLog |-> NoExit,
      messageBuffer |-> << >>, accepted |-> << >>, sentLog |-> << >>,
      okSince |-> { }, channelsById |-> [ id \in ChannelIds |-> 0 ],
      infos |-> << >>, leases |-> << >>, notified |-> << >>, warnings |-> 0,
      inbound |-> 0, flushed |-> 0, emitted |-> << >> ]

Created == send(Started, [ type |-> "CONNECT" ])

\* createClient called without any numeric option
NoOptions ==
    [ throttle |-> << >>, lostConnectionTimeout |-> << >>,
      backgroundKeepAliveTimeout |-> << >> ]

\* checkBounds(option, value, min, max): whether it throws; max is << >>
\* when the caller passes none
checkBounds(value, min, max) ==
    [ threw |-> (value < min \/ (Len(max) = 1 /\ value > max[1])), value |-> value ]

\* option ?? fallback
OrElse(option, fallback) == IF Len(option) = 1 THEN option[1] ELSE fallback

\* The truthiness test of options.backgroundKeepAliveTimeout
Truthy(option) == Len(option) = 1 /\ option[1] # 0

\* The head of createClient: whether one of its checkBounds calls throws
OptionsRejected(o) ==
    \/ checkBounds(OrElse(o.throttle, DEFAULT_THROTTLE),
                   MIN_THROTTLE, << MAX_THROTTLE >>).threw
    \/ checkBounds(OrElse(o.lostConnectionTimeout, DEFAULT_LOST_CONNECTION_TIMEOUT),
                   MIN_LOST_CONNECTION_TIMEOUT, << MAX_LOST_CONNECTION_TIMEOUT >>).threw
    \/ /\ Truthy(o.backgroundKeepAliveTimeout)
       /\ checkBounds(o.backgroundKeepAliveTimeout[1],
                      MIN_BACKGROUND_KEEP_ALIVE_TIMEOUT, << >>).threw

\* Before createClient is called nothing exists: no machine, no transport
NotCreated == [ Started EXCEPT !.running = FALSE ]

\* The program state is the record r
Holds(r) ==
    /\ currentState = r.currentState
    /\ running = r.running
    /\ context = r.context
    /\ lastStatus = r.lastStatus
    /\ timer = r.timer
    /\ authCall = r.authCall
    /\ staleAuth = r.staleAuth
    /\ transports = r.transports
    /\ attempt = r.attempt
    /\ paused = r.paused
    /\ pauseQueue = r.pauseQueue
    /\ unpauseTimer = r.unpauseTimer
    /\ errors = r.errors
    /\ effectLog = r.effectLog
    /\ messageBuffer = r.messageBuffer
    /\ accepted = r.accepted
    /\ sentLog = r.sentLog
    /\ okSince = r.okSince
    /\ channelsById = r.channelsById
    /\ infos = r.infos
    /\ leases = r.leases
    /\ notified = r.notified
    /\ warnings = r.warnings
    /\ inbound = r.inbound
    /\ flushed = r.flushed

Init ==
    /\ Holds(Created)
    /\ failures = 0
    /\ options = NoOptions
    /\ client = "created"
    /\ codec = Fresh
    /\ datagram = NewDatagram

\* A transport that the manager has closed and whose attempt has settled is
\* referenced by nothing any more (its subscribers are cleared, its promise
\* chain is finished): only the number of close() calls is kept of it
Collected(tr) ==
    IF tr.closeCalls > 0 /\ tr.phase = "settled"
    THEN [ NewTransport EXCEPT !.ws = "closed", !.readyState = "CLOSED",
                               !.phase = "settled", !.closeCalls = tr.closeCalls ]
    ELSE IF tr.aborted \/ tr.phase = "settled"
    THEN \* part 3 and the machine read neither value once the signal is
         \* aborted or the attempt has settled
         [ tr EXCEPT !.reason = NoEvent, !.captured = NoEvent ]
    ELSE tr

Collect(r) ==
    [ r EXCEPT !.transports = [ t \in 1..Len(r.transports) |-> Collected(r.transports[t]) ] ]

Step(r) ==
    Bounded(r) /\ Apply(Collect(r)) /\ UNCHANGED << failures, options, client, codec, datagram >>

----------------------------------------------------------------------------
\* Actions: the public methods of ManagedSocket

Connect == Step(send(Cur, [ type |-> "CONNECT" ]))

Reconnect == Step(send(Cur, [ type |-> "RECONNECT" ]))

Disconnect == Step(send(Cur, [ type |-> "DISCONNECT" ]))

Destroy == running /\ Step(stop(Cur))

\* Actions: host signals, injected while the machine is alive
NavigatorOnline == running /\ Step(send(Cur, [ type |-> "NAVIGATOR_ONLINE" ]))

NavigatorOffline == running /\ Step(send(Cur, [ type |-> "NAVIGATOR_OFFLINE" ]))

WindowGotFocus == running /\ Step(send(Cur, [ type |-> "WINDOW_GOT_FOCUS" ]))

\* Actions: timers
TimerFires ==
    /\ timer.armed
    /\ Step(transition([ Cur EXCEPT !.timer = NoTimer ], Target(timer.target, << >>)))

UnpauseTimerFires ==
    /\ unpauseTimer
    /\ Step(onMessageUnpause([ Cur EXCEPT !.unpauseTimer = FALSE ]))

\* Actions: the authenticate() delegate
AuthResolves ==
    /\ authCall = "pending"
    /\ Step(AuthSettled(Cur, AuthOk("no_auth")))

AuthRejects ==
    /\ authCall = "pending"
    /\ \E reason \in AuthFailures : Step(AuthSettled(Cur, AuthFailed(reason)))

StaleAuthSettles ==
    /\ staleAuth > 0
    /\ \E target \in AuthTargets : Step(StaleAuthSettled(Cur, target))

\* Actions: the transport and the connection attempt
TransportOpens ==
    \E t \in 1..Len(transports) :
        /\ transports[t].ws = "connecting"
        /\ Step(WsOnOpen(Cur, t))

TransportCloses ==
    \E t \in 1..Len(transports), code \in CloseCodes :
        /\ transports[t].ws \in { "connecting", "open" }
        /\ Step(WsOnClose(Cur, t, code))

TransportErrors ==
    \E t \in 1..Len(transports) :
        /\ transports[t].ws \in { "connecting", "open" }
        /\ Step(WsOnError(Cur, t))

TransportMessage ==
    \E t \in 1..Len(transports), frame \in ServerFrames :
        /\ transports[t].ws = "open"
        /\ Len(WsOnMessage(Cur, t, frame).pauseQueue) <= MaxInbound
        /\ Step(WsOnMessage(Cur, t, frame))

ConnectTimeout ==
    \E t \in 1..Len(transports) :
        /\ transports[t].phase = "pending"
        /\ Step([ Cur EXCEPT !.transports[t].phase = "rejected",
                             !.transports[t].reason = TimeoutError ])

ConnectContinues ==
    \E t \in 1..Len(transports) :
        /\ transports[t].phase \in { "resolved", "rejected" }
        /\ Step(ConnectContinuation(Cur, t))

\* Actions: the client API
Join == \E id \in ChannelIds : Step(join(Cur, id))

Leave == \E l \in 1..Len(leases) : Step(leave(Cur, l))

Broadcast == \E ch \in 1..Len(infos) : Step(broadcast(Cur, ch))

\* The connection manager alone: public methods, host signals, timers, the
\* delegates and the transport
Next ==
    \/ Connect \/ Reconnect \/ Disconnect \/ Destroy
    \/ NavigatorOnline \/ NavigatorOffline \/ WindowGotFocus
    \/ TimerFires \/ UnpauseTimerFires
    \/ AuthResolves \/ AuthRejects \/ StaleAuthSettles
    \/ TransportOpens \/ TransportCloses \/ TransportErrors
    \/ ConnectTimeout \/ ConnectContinues

Spec == Init /\ [][Next]_vars

\* The send queue of the client over a connection that is opened,
\* disconnected, reconnected and destroyed
NextQueue ==
    \/ Join \/ Broadcast
    \/ Connect \/ Disconnect \/ Destroy
    \/ AuthResolves
    \/ TransportOpens
    \/ ConnectContinues

SpecQueue == Init /\ [][NextQueue]_vars

\* The channel registry of the client, with the delegates createClient
\* configures (authenticate always resolves)
NextChannels ==
    \/ Join \/ Leave
    \/ TimerFires
    \/ AuthResolves
    \/ TransportOpens \/ TransportCloses
    \/ ConnectContinues

SpecChannels == Init /\ [][NextChannels]_vars

\* The inbound dispatch of the client to its channels
NextInbound ==
    \/ Join
    \/ TransportMessage \/ UnpauseTimerFires
    \/ AuthResolves
    \/ TransportOpens \/ TransportCloses
    \/ ConnectContinues

SpecInbound == Init /\ [][NextInbound]_vars

\* Data frames of one channel that differ in the peer that sent them
PeerFrames ==
    { [ t |-> "data", op |-> NoField, c |-> "room-1", p |-> p, pl |-> EncodedEvent ] :
        p \in Peers }

MessageArrives ==
    \E t \in 1..Len(transports), frame \in PeerFrames :
        /\ transports[t].ws = "open"
        /\ Len(WsOnMessage(Cur, t, frame).pauseQueue) <= MaxQueued
        /\ Step(WsOnMessage(Cur, t, frame))

\* The delivery of transport messages over connections that open, are lost
\* and are opened again
NextDelivery ==
    \/ Join
    \/ MessageArrives \/ UnpauseTimerFires
    \/ TimerFires
    \/ AuthResolves
    \/ TransportOpens \/ TransportCloses
    \/ ConnectContinues

SpecDelivery == Init /\ [][NextDelivery]_vars

\* createClient(options) with numeric options around their bounds: either
\* a checkBounds call throws and nothing is constructed, or the manager is
\* constructed and connect() is called
Near(n) == (n - Margin)..(n + Margin)

CreateOptions ==
    [ throttle :
          { << >> } \cup { << v >> : v \in Near(MIN_THROTTLE) \cup Near(MAX_THROTTLE) },
      lostConnectionTimeout :
          { << >> } \cup { << v >> : v \in Near(MIN_LOST_CONNECTION_TIMEOUT)
                                            \cup Near(MAX_LOST_CONNECTION_TIMEOUT) },
      backgroundKeepAliveTimeout :
          { << >> } \cup { << v >> : v \in Near(0)
                                            \cup Near(MIN_BACKGROUND_KEEP_ALIVE_TIMEOUT) } ]

InitCreate ==
    /\ options \in CreateOptions
    /\ client = "none"
    /\ failures = 0
    /\ codec = Fresh
    /\ datagram = NewDatagram
    /\ Holds(NotCreated)

CreateClient ==
    /\ client = "none"
    /\ IF OptionsRejected(options)
       THEN /\ client' = "threw"
            /\ \E n \in { Cur } : Apply(n)
       ELSE /\ client' = "created"
            /\ \E n \in { Created } : Apply(n)
    /\ UNCHANGED << failures, options, codec, datagram >>

NextCreate ==
    CreateClient \/ AuthResolves \/ TransportOpens \/ ConnectContinues

SpecCreate == InitCreate /\ [][NextCreate]_vars

\* The retry loop left to itself: no public method and no host signal, only
\* timers, the delegates and the transport. A step that enters a backoff
\* state is a failure, a step that enters an OK state a success.
Counted(r) ==
    IF r.effectLog.from = "none" THEN failures
    ELSE IF r.currentState \in { "@auth.backoff", "@connecting.backoff" }
    THEN failures + 1
    ELSE IF InOk(r.currentState) THEN 0
    ELSE failures

\* The handler runs once; n is the program state it leaves
StepRetry(r) ==
    \E n \in { Collect(r) } :
        /\ Len(n.transports) <= MaxTransports
        /\ Counted(n) <= MaxFailures
        /\ Apply(n)
        /\ failures' = Counted(n)
        /\ UNCHANGED << options, client, codec, datagram >>

RetryTimerFires ==
    /\ timer.armed
    /\ StepRetry(transition([ Cur EXCEPT !.timer = NoTimer ],
                            Target(timer.target, << >>)))

RetryAuthResolves ==
    /\ authCall = "pending"
    /\ StepRetry(AuthSettled(Cur, AuthOk("no_auth")))

RetryAuthRejects ==
    /\ authCall = "pending"
    /\ \E reason \in AuthFailures : StepRetry(AuthSettled(Cur, AuthFailed(reason)))

RetryTransportOpens ==
    \E t \in 1..Len(transports) :
        /\ transports[t].ws = "connecting"
        /\ StepRetry(WsOnOpen(Cur, t))

RetryTransportCloses ==
    \E t \in 1..Len(transports), code \in CloseCodes :
        /\ transports[t].ws \in { "connecting", "open" }
        /\ StepRetry(WsOnClose(Cur, t, code))

RetryTransportErrors ==
    \E t \in 1..Len(transports) :
        /\ transports[t].ws \in { "connecting", "open" }
        /\ StepRetry(WsOnError(Cur, t))

RetryConnectTimeout ==
    \E t \in 1..Len(transports) :
        /\ transports[t].phase = "pending"
        /\ StepRetry([ Cur EXCEPT !.transports[t].phase = "rejected",
                                  !.transports[t].reason = TimeoutError ])

RetryConnectContinues ==
    \E t \in 1..Len(transports) :
        /\ transports[t].phase \in { "resolved", "rejected" }
        /\ StepRetry(ConnectContinuation(Cur, t))

NextRetry ==
    \/ RetryTimerFires \/ RetryAuthResolves \/ RetryAuthRejects
    \/ RetryTransportOpens \/ RetryTransportCloses \/ RetryTransportErrors
    \/ RetryConnectTimeout \/ RetryConnectContinues

SpecRetry == Init /\ [][NextRetry]_vars

\* A settled attempt whose continuation has not run yet, with room for one
\* more failure: RetryConnectContinues is enabled
ContinuationPending ==
    /\ \E t \in 1..Len(transports) : transports[t].phase \in { "resolved", "rejected" }
    /\ failures < MaxFailures

\* The same loop with the scheduling the host guarantees: an armed timer
\* fires (backoff timers, the connect timeout) and the continuation of a
\* settled promise runs. The last condition is weak fairness of
\* RetryConnectContinues with its enabling condition written out.
SpecRetryFair ==
    /\ SpecRetry
    /\ WF_vars(RetryTimerFires)
    /\ WF_vars(RetryConnectTimeout)
    /\ ([]<>~ContinuationPending \/ []<><<RetryConnectContinues>>_vars)

\* An authenticate() call is pending, with room for one more failure: the
\* timer of withTimeout is armed
AuthPending == authCall = "pending" /\ failures < MaxFailures

\* The retry loop with the timers of withTimeout: while authenticate() is
\* pending its timer is armed, so the call settles (by itself or by the
\* timeout); while a transport has not opened the timer of the attempt is
\* armed; and the continuation of a settled attempt runs
SpecTimeoutFair ==
    /\ SpecRetry
    /\ ([]<>~AuthPending \/ []<><<RetryAuthResolves \/ RetryAuthRejects>>_vars)
    /\ WF_vars(RetryConnectTimeout)
    /\ ([]<>~ContinuationPending \/ []<><<RetryConnectContinues>>_vars)

\* reconnect() called while an attempt is in flight
ReconnectWhileBusy == currentState = "@connecting.busy" /\ Reconnect

\* Connection attempts that are abandoned: the application connects,
\* disconnects and destroys the manager at any time and reconnects during an
\* attempt, while transports open, close, fail and time out
NextAbandon ==
    \/ Connect \/ ReconnectWhileBusy \/ Disconnect \/ Destroy
    \/ AuthResolves
    \/ TransportOpens \/ TransportCloses \/ TransportErrors
    \/ ConnectTimeout \/ ConnectContinues

SpecAbandon == Init /\ [][NextAbandon]_vars

\* Work that is left to the host for an attempt: the timer of withTimeout
\* is armed while the promise is pending, and the continuation of the
\* settled promise of an abandoned attempt is queued
SettlePending ==
    \E t \in 1..Len(transports) :
        \/ transports[t].phase = "pending"
        \/ transports[t].aborted /\ transports[t].phase \in { "resolved", "rejected" }

\* The same with the scheduling the host guarantees: an armed timer fires
\* and a queued continuation runs. This is weak fairness of ConnectTimeout
\* \/ ConnectContinues, with the enabling condition written out.
SpecAbandonFair ==
    /\ SpecAbandon
    /\ ([]<>~SettlePending \/ []<><<ConnectTimeout \/ ConnectContinues>>_vars)

\* The machine driven by the application and the host while it waits in
\* the backoff states: connect, reconnect and disconnect at any time, the
\* browser coming online, timers firing, connections made and lost
NextSignals ==
    \/ Connect \/ Reconnect \/ Disconnect
    \/ NavigatorOnline
    \/ TimerFires
    \/ AuthResolves
    \/ TransportOpens \/ TransportCloses
    \/ ConnectContinues

SpecSignals == Init /\ [][NextSignals]_vars

\* The authentication step of the machine: the application connects,
\* reconnects and disconnects while authenticate() calls are pending, and
\* every call settles at some time, the abandoned ones included
NextAuth ==
    \/ Connect \/ Reconnect \/ Disconnect
    \/ TimerFires
    \/ AuthResolves \/ AuthRejects \/ StaleAuthSettles
    \/ TransportOpens \/ ConnectContinues

SpecAuth == Init /\ [][NextAuth]_vars

\* Client.logout(): the body is empty
logout(r) == r

Logout == client = "created" /\ Step(logout(Cur))

\* The retry loop with the application calling logout() at any time
NextLogout == Logout \/ NextRetry

SpecLogout == Init /\ [][NextLogout]_vars

----------------------------------------------------------------------------
\* ManagedSocket.send(data) called by an application at any time, over a
\* connection that opens, fails, is closed and is retried
RawData == "data"

Send ==
    /\ Len(sentLog) < MaxFrames
    /\ Step(ManagedSocketSend(Cur, RawData))

NextSend ==
    \/ Send
    \/ Disconnect \/ Connect \/ Destroy
    \/ TimerFires
    \/ AuthResolves
    \/ TransportOpens \/ TransportCloses \/ TransportErrors
    \/ ConnectContinues

SpecSend == Init /\ [][NextSend]_vars

----------------------------------------------------------------------------
\* The codec on its own (specification SpecCodec): values are encoded, the
\* bytes cut short or spoilt, and decoded

\* Magnitudes on both sides of every limit appendNumber compares with, and
\* 2^53
Magnitudes ==
    { NatBytes(n) : n \in { m \in UNION { Near(l) : l \in { 1, 32, 128, 256, 32768,
                                                           65536 } } : m >= 0 } }
        \cup { << 127, 255, 255, 255 >>, << 128, 0, 0, 0 >>, << 128, 0, 0, 1 >>,
               << 255, 255, 255, 255 >>, << 1, 0, 0, 0, 0 >>,
               << 32, 0, 0, 0, 0, 0, 0 >> }

Numbers == { Number(neg, mag) : neg \in BOOLEAN, mag \in Magnitudes } \ { Number(TRUE, << >>) }

\* 1.5, -0.5, Infinity and NaN
Floats ==
    { Float(<< b, 248 - 8 * (b % 2), 0, 0, 0, 0, 0, 0 >>) : b \in { 63, 191 } }
        \cup { Float(<< 127, 240, 0, 0, 0, 0, 0, 0 >>), NaN }

\* "a" and "e" with an acute accent, which takes two bytes
Texts == UNION { [ 1..n -> { 97, 233 } ] : n \in 0..MaxChars }

Strings == { String(chars) : chars \in Texts \cup { Repeat(97, 32) } }

Binaries == { Uint8Array(Repeat(7, n)) : n \in { 0, 1, 15, 16 } }

\* Dates half a second apart on both sides of the epoch
Dates == { Date(500 * k) : k \in (0 - 2 * MaxSeconds)..(2 * MaxSeconds) }

Scalars ==
    { Null, Bool(TRUE), Bool(FALSE) } \cup Numbers \cup Floats \cup Strings
        \cup Binaries \cup Dates

Leaves ==
    { Null, Bool(TRUE), Number(FALSE, << 1 >>), Number(TRUE, << 1, 0 >>),
      String(<< 233 >>) }

Arrays == { Array(items) : items \in UNION { [ 1..n -> Leaves ] : n \in 0..MaxItems } }

Keys == { << 97 >>, << 98 >> }

Objects ==
    { Object([ i \in 1..Len(keys) |-> [ key |-> keys[i], value |-> values[i] ] ]) :
        keys \in { k \in UNION { [ 1..n -> Keys ] : n \in 0..MaxItems } :
                     \A i, j \in 1..Len(k) : k[i] = k[j] => i = j },
        values \in [ 1..MaxItems -> Leaves ] }

Nested ==
    { Array(<< c >>) : c \in Arrays \cup Objects \cup Dates }
        \cup { Object(<< [ key |-> << 97 >>, value |-> c ] >>) :
                 c \in Arrays \cup Objects \cup Dates }

\* The values of the supported types that are drawn
Values == Scalars \cup Arrays \cup Objects \cup Nested

\* array = msgpack.encode(value)
Encode ==
    /\ codec.origin = "none"
    /\ \E value \in Values :
          codec' = [ Fresh EXCEPT !.value = value, !.array = encode(value),
                                  !.origin = "encoded" ]
    /\ UNCHANGED << program, datagram >>

\* Maps in which at least one key has the value undefined
SparseObjects ==
    { Object([ i \in 1..Len(keys) |-> [ key |-> keys[i], value |-> values[i] ] ]) :
        keys \in { k \in UNION { [ 1..n -> Keys ] : n \in 1..MaxItems } :
                     \A i, j \in 1..Len(k) : k[i] = k[j] => i = j },
        values \in { v \in [ 1..MaxItems -> Leaves \cup { Undefined } ] :
                       \E i \in 1..MaxItems : v[i] = Undefined } }
        \ Objects

\* array = msgpack.encode(value) for such a map
EncodeSparse ==
    /\ codec.origin = "none"
    /\ \E value \in SparseObjects :
          codec' = [ Fresh EXCEPT !.value = value, !.array = encode(value),
                                  !.origin = "sparse" ]
    /\ UNCHANGED << program, datagram >>

\* array = array.slice(): the same bytes in a buffer of their own, as a
\* received frame holds them
Slice ==
    /\ codec.array.after # << >>
    /\ codec' = [ codec EXCEPT !.array = View(codec.array.bytes, << >>),
                               !.decoded = << >> ]
    /\ UNCHANGED << program, datagram >>

\* array = array.subarray(0, array.length - 1): a strict prefix of an
\* encoding, the buffer keeping the byte. The encoder's array is cut before
\* it is copied.
Truncate ==
    /\ codec.origin \in { "encoded", "truncated" }
    /\ codec.depth = 0
    /\ codec.array.after # << >>
    /\ codec.array.bytes # << >>
    /\ LET bytes == codec.array.bytes
           n == Len(bytes)
       IN  codec' = [ codec EXCEPT
                        !.array = View(SubSeq(bytes, 1, n - 1),
                                       << bytes[n] >> \o codec.array.after),
                        !.origin = "truncated", !.decoded = << >> ]
    /\ UNCHANGED << program, datagram >>

\* The byte 0xc1 where a value is expected
Invalid ==
    /\ codec.origin = "none"
    /\ codec' = [ Fresh EXCEPT !.array = View(<< 193 >>, << >>), !.origin = "invalid" ]
    /\ UNCHANGED << program, datagram >>

\* The headers of an array or a map whose last value is still to come
Headers ==
    { << 145 >>, << 220, 0, 1 >>, << 146 >> \o append(String(<< 97 >>)),
      << 129 >> \o append(String(<< 97 >>)) }

\* A cut or spoilt encoding as the last value of an array or a map
Nest ==
    /\ codec.origin \in { "truncated", "invalid" }
    /\ codec.depth < MaxDepth
    /\ \E header \in Headers :
          codec' = [ codec EXCEPT
                       !.array = View(header \o codec.array.bytes, codec.array.after),
                       !.depth = @ + 1, !.decoded = << >> ]
    /\ UNCHANGED << program, datagram >>

\* msgpack.decode(array)
Decode ==
    /\ codec.origin # "none"
    /\ codec.decoded = << >>
    /\ codec' = [ codec EXCEPT !.decoded = << decode(codec.array) >> ]
    /\ UNCHANGED << program, datagram >>

NextCodec == Encode \/ EncodeSparse \/ Slice \/ Truncate \/ Invalid \/ Nest \/ Decode

SpecCodec == Init /\ [][NextCodec]_vars

----------------------------------------------------------------------------
\* The Datagram transport on its own (specification SpecDatagram): an owner
\* subscribes to a transport and closes it at some time, the session opens
\* or fails, datagrams arrive, the session ends

DatagramStep(d) ==
    /\ d.closeCalls <= MaxCloses
    /\ datagram' = d
    /\ UNCHANGED << program, codec >>

\* Every step starts with nothing delivered
CurDatagram == [ datagram EXCEPT !.delivered = << >> ]

\* The owner subscribes to a transport it has not closed
DatagramSubscribe ==
    /\ datagram.closeCalls = 0
    /\ \E event \in TransportEvents \ datagram.subs :
          DatagramStep(WtSubscribe(CurDatagram, event))

DatagramClose == DatagramStep(WtClose(CurDatagram))

\* The session becomes ready, unless its close was initiated before
DatagramReady ==
    /\ datagram.ready = "pending"
    /\ datagram.closed = "pending"
    /\ datagram.closeCalls = 0
    /\ DatagramStep(WtOnReady(CurDatagram))

\* The session cannot be established, or was closed before it was
DatagramReadyFails ==
    /\ datagram.ready = "pending"
    /\ DatagramStep(WtOnReadyRejected(CurDatagram))

\* A datagram arrives on the open session
DatagramArrives ==
    /\ datagram.reading
    /\ datagram.closed = "pending"
    /\ datagram.closeCalls = 0
    /\ DatagramStep(WtOnRead(CurDatagram, "value"))

\* The pending read ends with the session: the stream is closed or errored
DatagramReadEnds ==
    /\ datagram.reading
    /\ datagram.closed # "pending" \/ datagram.closeCalls > 0
    /\ \E result \in { "done", "rejected" } : DatagramStep(WtOnRead(CurDatagram, result))

\* The session is closed, by the peer or after WT.close()
DatagramClosed ==
    /\ datagram.ready = "resolved"
    /\ datagram.closed = "pending"
    /\ DatagramStep(WtOnClosed(CurDatagram))

\* The session is lost or never was established
DatagramClosedFails ==
    /\ datagram.closed = "pending"
    /\ datagram.ready # "pending" \/ datagram.closeCalls > 0
    /\ DatagramStep(WtOnClosedRejected(CurDatagram))

NextDatagram ==
    \/ DatagramSubscribe \/ DatagramClose
    \/ DatagramReady \/ DatagramReadyFails
    \/ DatagramArrives \/ DatagramReadEnds
    \/ DatagramClosed \/ DatagramClosedFails

SpecDatagram == Init /\ [][NextDatagram]_vars

----------------------------------------------------------------------------
\* Properties of the connection manager (specification Spec)

\* C1: whenever the machine is at rest, the context field transport is
\* non-null if and only if the current state is @ok.connected or
\* @ok.awaiting-pong
C1_TransportIffOk ==
    (context.transport # NullTransport) <=> InOk(currentState)

\* The machine is in OK for the second time, on its second transport, the
\* first one closed and dropped from the context in between
C1_Witness ==
    /\ InOk(currentState)
    /\ context.transport = 2
    /\ context.successCount = 2
    /\ transports[1].closeCalls = 1

\* C2: the transport the machine entered the OK group with is closed exactly
\* once when the machine leaves the group (never zero times, never twice,
\* whatever the cause), and the context transport is already null when the
\* effects of the leaving transition run
C2_ClosedOnceOnLeavingOk ==
    /\ effectLog.leftOk => (effectLog.closes = 1 /\ effectLog.seen = NullTransport)
    /\ \A t \in 1..Len(transports) :
          /\ transports[t].closeCalls <= 1
          /\ context.transport = t => transports[t].closeCalls = 0

\* destroy() while connected: the step left OK and closed the transport once
C2_Witness ==
    /\ ~running
    /\ effectLog.leftOk
    /\ effectLog.closes = 1
    /\ effectLog.seen = NullTransport

----------------------------------------------------------------------------
\* Properties of the send queue (specification SpecQueue)

SentCount(i) == Cardinality({ k \in 1..Len(sentLog) : sentLog[k].f = i })

BroadcastFrames == { i \in 1..Len(accepted) : accepted[i].t = "data" }

\* C3: a frame enqueued by broadcast is handed to a transport exactly once if
\* the machine is in, or later reaches, an OK state, and to no transport
\* otherwise; no frame is sent twice
C3_BroadcastSentOnceIffOk ==
    \A i \in BroadcastFrames : SentCount(i) = IF i \in okSince THEN 1 ELSE 0

\* After destroy(): one broadcast frame was sent in an OK state, another
\* was broadcast after the last OK state and is still buffered
C3_Witness ==
    /\ ~running
    /\ \E i, j \in BroadcastFrames :
          /\ i \in okSince /\ SentCount(i) = 1
          /\ j \notin okSince /\ SentCount(j) = 0 /\ j \in { messageBuffer[b] : b \in 1..Len(messageBuffer) }

\* C4: frames reach the transport in the order sendMessages accepted them:
\* the frames sent so far, followed by the frames still buffered, are the
\* accepted frames in acceptance order, and nothing stays buffered in OK
C4_FifoOrder ==
    /\ [ k \in 1..Len(sentLog) |-> sentLog[k].f ] \o messageBuffer
          = [ i \in 1..Len(accepted) |-> i ]
    /\ InOk(currentState) => messageBuffer = << >>

\* The machine has just connected for the second time and the didConnect
\* flush took two buffered frames, after the first transport had taken one
C4_Witness ==
    /\ InOk(currentState)
    /\ flushed = 2
    /\ Len(sentLog) = 3
    /\ sentLog[1].to = 1 /\ sentLog[2].to = 2 /\ sentLog[3].to = 2

----------------------------------------------------------------------------
\* Properties of the channel registry (specification SpecChannels)

\* C5: calling the same leave function again has no further effect on the
\* registry: the second call changes no lease set and no registry entry and
\* only logs a warning, and a channel is torn down at most once
C5_LeaveIdempotent ==
    /\ \A l \in 1..Len(leases) :
          LET once == leave(Cur, l)
              twice == leave(once, l)
          IN  /\ twice.channelsById = once.channelsById
              /\ twice.infos = once.infos
              /\ twice.leases = once.leases
              /\ twice.warnings = once.warnings + 1
    /\ \A ch \in 1..Len(infos) : infos[ch].destroyed <= 1

\* A leave function was called again after its call had torn the channel
\* down: the call logged the warning and the channel stays torn down once
C5_Witness ==
    /\ warnings = 1
    /\ \E l \in 1..Len(leases) :
          /\ infos[leases[l]].destroyed = 1
          /\ infos[leases[l]].unsubs = { }
          /\ channelsById[infos[leases[l]].id] = 0

\* The leases handed out for channel ch
LeasesOf(ch) == { l \in 1..Len(leases) : leases[l] = ch }

\* C6: an id is in the registry if and only if a lease of the current channel
\* with that id is not yet released; join on an existing id adds a lease to
\* the same channel; the channel is removed exactly when its last lease is
\* released
C6_RegistryIffLease ==
    /\ \A id \in ChannelIds :
          getChannel(Cur, id) # 0 <=>
              \E ch \in 1..Len(infos) :
                  infos[ch].id = id /\ infos[ch].unsubs # { } /\ infos[ch].destroyed = 0
    /\ \A ch \in 1..Len(infos) :
          /\ infos[ch].unsubs \subseteq LeasesOf(ch)
          /\ infos[ch].unsubs # { } => getChannel(Cur, infos[ch].id) = ch
          /\ infos[ch].unsubs = { } <=> infos[ch].destroyed = 1
    /\ \A id \in ChannelIds :
          getChannel(Cur, id) # 0 =>
              LET ch == getChannel(Cur, id)
                  r == join(Cur, id)
              IN  /\ r.channelsById = channelsById
                  /\ Len(r.infos) = Len(infos)
                  /\ r.leases = Append(leases, ch)
                  /\ r.infos[ch].unsubs = infos[ch].unsubs \cup { Len(leases) + 1 }

\* Two leases were handed out for one channel and one of them is released:
\* the channel is still registered
C6_Witness ==
    \E ch \in 1..Len(infos) :
        /\ Cardinality(LeasesOf(ch)) = 2
        /\ Cardinality(infos[ch].unsubs) = 1
        /\ getChannel(Cur, infos[ch].id) = ch

\* C7: a join(id) that creates a channel enqueues exactly one control frame
\* {t: control, op: channel_join, c: id}; a join(id) on an id that already
\* has a channel enqueues no frame
C7_JoinFrame ==
    \A id \in ChannelIds :
        join(Cur, id).accepted =
            IF getChannel(Cur, id) = 0
            THEN Append(accepted, ControlFrame("channel_join", id, NoField))
            ELSE accepted

\* Two joins of the same id: the first created the channel and enqueued the
\* one channel_join frame, the second added a lease and no frame
C7_Witness ==
    /\ Len(leases) = 2
    /\ leases[1] = leases[2]
    /\ Len(accepted) = 1
    /\ accepted[1] = ControlFrame("channel_join", infos[leases[1]].id, NoField)

----------------------------------------------------------------------------
\* Properties of the inbound dispatch (specification SpecInbound)

Registered(id) == getChannel(Cur, id) # 0

PeerOnlineFrame(id) == ControlFrame("peer_online", id, NoField)

PeerStateFrame(id) == ControlFrame("peer_state", id, EncodedState)

\* C8 as stated: on a server frame with op channel_join for a registered
\* channel, the client enqueues a peer_online control frame for that id
\* followed by a peer_state control frame carrying the encoded local state
C8_JoinedSendsOnlineThenState ==
    \A frame \in ServerFrames :
        (frame.op = "channel_join" /\ Registered(frame.c)) =>
            handleServerMessage(Cur, frame).accepted =
                accepted \o << PeerOnlineFrame(frame.c), PeerStateFrame(frame.c) >>

\* C8 as amended: on a server frame with op channel_join for a registered
\* channel, the client enqueues exactly one frame, the peer_online control
\* frame for that id, and no peer_state frame
C8_JoinedSendsOnline ==
    \A frame \in ServerFrames :
        (frame.op = "channel_join" /\ Registered(frame.c)) =>
            handleServerMessage(Cur, frame).accepted =
                Append(accepted, PeerOnlineFrame(frame.c))

\* A channel_join for a registered channel has been dispatched: the last
\* frame enqueued is the peer_online frame of that channel
C8_Witness ==
    /\ inbound = 1
    /\ accepted # << >>
    /\ \E id \in ChannelIds :
          Registered(id) /\ accepted[Len(accepted)] = PeerOnlineFrame(id)

\* C9: for an inbound peer_online (peer_offline) control frame: if p is not
\* the own uid and the channel is registered, the peerOnline (peerOffline)
\* observers of that channel are notified exactly once and, for peer_online,
\* exactly one peer_state frame is enqueued; otherwise no observer is
\* notified and no frame is enqueued
C9_PeerPresenceDispatch ==
    \A frame \in ServerFrames :
        (frame.t = "control" /\ frame.op \in { "peer_online", "peer_offline" }) =>
            LET r == handleServerMessage(Cur, frame)
                source == IF frame.op = "peer_online" THEN "peerOnline" ELSE "peerOffline"
            IN  IF frame.p # OwnUid /\ Registered(frame.c)
                THEN /\ r.notified = << [ ch |-> getChannel(Cur, frame.c),
                                          source |-> source, p |-> frame.p ] >>
                     /\ r.accepted = IF frame.op = "peer_online"
                                     THEN Append(accepted, PeerStateFrame(frame.c))
                                     ELSE accepted
                ELSE /\ r.notified = << >>
                     /\ r.accepted = accepted

\* A peer_online of another peer has been dispatched to a registered channel:
\* its peerOnline observers were notified once and the peer_state frame is
\* the last frame enqueued
C9_Witness ==
    /\ Len(notified) = 1
    /\ notified[1].source = "peerOnline"
    /\ notified[1].p # OwnUid
    /\ accepted # << >>
    /\ accepted[Len(accepted)] = PeerStateFrame(infos[notified[1].ch].id)

----------------------------------------------------------------------------
\* Frame conditions of the public methods (specification Spec)

IdleStates == { "@idle.initial", "@idle.failed", "@idle.zombie" }

\* C10: CONNECT has an effect only in an @idle.* state: there it moves the
\* machine to @connecting.busy when authValue is non-null and to @auth.busy
\* when it is null; in every other state it changes nothing
C10_ConnectOnlyFromIdle ==
    LET r == send(Cur, [ type |-> "CONNECT" ]) IN
    IF running /\ currentState \in IdleStates
    THEN r.currentState = IF context.authValue # NullAuth
                          THEN "@connecting.busy" ELSE "@auth.busy"
    ELSE r = Cur

\* CONNECT has just moved the machine from an idle state straight to
\* @connecting.busy, the authValue of an earlier authentication still set
C10_Witness ==
    /\ effectLog.from \in IdleStates
    /\ currentState = "@connecting.busy"
    /\ context.authValue # NullAuth

\* The tier of the normal ladder a delay has reached (0 below the first tier)
TierOf(delay) ==
    Cardinality({ i \in 1..Len(BACKOFF_DELAYS) : BACKOFF_DELAYS[i] <= delay })

\* The delay one tier further up the normal ladder, the last tier at most
OneTierUp(delay) ==
    IF TierOf(delay) < Len(BACKOFF_DELAYS)
    THEN BACKOFF_DELAYS[TierOf(delay) + 1]
    ELSE BACKOFF_DELAYS[Len(BACKOFF_DELAYS)]

IsSend(type) == Apply(Collect(send(Cur, [ type |-> type ])))

\* The step takes the machine out of @idle.failed while it stays alive
LeavesFailed ==
    /\ currentState = "@idle.failed"
    /\ currentState' # "@idle.failed"
    /\ running'

C13_AuthFailureDisposition ==
    authCall = "pending" =>
        /\ currentState = "@auth.busy"
        /\ \A reason \in AuthFailures :
              LET n == AuthSettled(Cur, AuthFailed(reason)) IN
              IF reason.kind = "StopRetrying"
              THEN /\ n.currentState = "@idle.failed"
                   /\ n.errors = << [ message |-> reason.message, code |-> -1 ] >>
                   /\ n.context.backoffDelay = context.backoffDelay
              ELSE /\ n.currentState = "@auth.backoff"
                   /\ n.context.backoffDelay = OneTierUp(context.backoffDelay)
                   /\ n.errors = << >>

\* authenticate() has just rejected with StopRetrying("disabled")
C13_Witness ==
    /\ effectLog.from = "@auth.busy"
    /\ currentState = "@idle.failed"
    /\ errors = << [ message |-> "disabled", code |-> -1 ] >>

\* What a connection attempt can fail with: a close or error event of the
\* transport, the timeout, StopRetrying, any other exception
ConnectFailures ==
    { CloseEvent(code) : code \in CloseCodes }
        \cup { ErrorEvent, TimeoutError, StopRetrying("disabled"),
               [ kind |-> "exception", code |-> 0 ] }

\* The disposition of one failure of the attempt on transport t, as left
\* by the continuation n of the attempt
FailureDisposition(n, t, failure) ==
    /\ ~InOk(n.currentState)
    /\ n.context.transport = NullTransport
    /\ n.transports[t].closeCalls = 1
    /\ CASE failure.kind = "close" ->
              /\ n.currentState = "@idle.failed"
              /\ n.errors = << [ message |-> CloseReason(failure.code),
                                 code |-> failure.code ] >>
              /\ n.context.backoffDelay = context.backoffDelay
         [] failure.kind = "StopRetrying" ->
              /\ n.currentState = "@idle.failed"
              /\ n.errors = << [ message |-> failure.message, code |-> -1 ] >>
              /\ n.context.backoffDelay = context.backoffDelay
         [] OTHER ->
              /\ n.currentState = "@auth.backoff"
              /\ n.errors = << >>
              /\ n.context.backoffDelay = OneTierUp(context.backoffDelay)

\* C14: when the connection attempt of @connecting.busy fails, a close
\* event leads to @idle.failed with exactly one error carrying the close
\* reason and code, StopRetrying leads to @idle.failed with code -1, every
\* other failure leads to @auth.backoff with backoffDelay one tier up and
\* no error; the machine never enters an OK state for that attempt
C14_ConnectFailureDisposition ==
    \A t \in 1..Len(transports) :
        LET tr == transports[t] IN
        /\ (tr.phase = "rejected" /\ ~tr.aborted) =>
              \A failure \in ConnectFailures :
                  FailureDisposition(
                      ConnectContinuation(
                          [ Cur EXCEPT !.transports[t].reason = failure ], t),
                      t, failure)
        /\ (tr.phase \in { "resolved", "rejected" } /\ ~tr.aborted
               /\ (tr.phase = "rejected" \/ tr.captured # NoEvent)) =>
              /\ currentState = "@connecting.busy"
              /\ FailureDisposition(
                     ConnectContinuation(Cur, t), t,
                     IF tr.phase = "rejected" THEN tr.reason ELSE tr.captured)

\* The server has refused the attempt: close(4001, "bad token") during
\* @connecting.busy ended in @idle.failed with that error
C14_Witness ==
    /\ effectLog.from = "@connecting.busy"
    /\ currentState = "@idle.failed"
    /\ errors = << [ message |-> "bad token", code |-> 4001 ] >>

----------------------------------------------------------------------------
\* Properties of the retry loop (specification SpecRetry)

\* d2 is the first tier of the normal ladder strictly greater than d1, or
\* the last tier when there is none
FirstTierAbove(d1, d2) ==
    LET tiers == { 250, 500, 1000, 2000, 4000, 8000, 10000 } IN
    /\ d2 \in tiers
    /\ IF d1 < 10000
       THEN d2 > d1 /\ ~ \E t \in tiers : d1 < t /\ t < d2
       ELSE d2 = 10000

\* The wait after the n-th consecutive failure: 250, 500, ..., then 10000
NthTier(n) ==
    CASE n = 1 -> 250 [] n = 2 -> 500 [] n = 3 -> 1000 [] n = 4 -> 2000
      [] n = 5 -> 4000 [] n = 6 -> 8000 [] OTHER -> 10000

\* C15: every backoff advance sets backoffDelay to the first tier of
\* {250, 500, 1000, 2000, 4000, 8000, 10000} strictly greater than the
\* current value, staying at 10000 once reached; counting from the last
\* successful connection the n-th consecutive failure waits the n-th tier,
\* and the next successful connection resets backoffDelay to 249
C15_BackoffLadder ==
    /\ FirstTierAbove(context.backoffDelay,
                      increaseBackoffDelay(context).backoffDelay)
    /\ failures = 0 => context.backoffDelay = 249
    /\ failures > 0 => context.backoffDelay = NthTier(failures)
    /\ timer.armed => failures > 0 /\ timer.delay = NthTier(failures)
    /\ InOk(currentState) => failures = 0

\* The eighth consecutive failure waits 10000 ms again
C15_Witness ==
    /\ failures = 8
    /\ timer.armed
    /\ timer.delay = 10000

----------------------------------------------------------------------------
\* Properties of the retry loop under fair scheduling (specification SpecRetryFair)

\* A close event of the context transport in @ok.connected leads to
\* @connecting.backoff, with the timer armed to enter @connecting.busy
\* after the advanced backoffDelay
LossLeadsToBackoff ==
    (currentState = "@ok.connected" /\ context.transport # NullTransport) =>
        \A code \in CloseCodes :
            LET n == WsOnClose(Cur, context.transport, code) IN
            /\ n.currentState = "@connecting.backoff"
            /\ n.context.backoffDelay = OneTierUp(context.backoffDelay)
            /\ n.timer = [ armed |-> TRUE, delay |-> n.context.backoffDelay,
                           target |-> "@connecting.busy" ]

\* Waiting in @connecting.backoff, with room for one more transport and
\* one more failure
WaitingToRetry ==
    /\ currentState = "@connecting.backoff"
    /\ Len(transports) < MaxTransports
    /\ failures < MaxFailures

\* Connected again, or the attempt that followed has failed in its turn
\* (refused by the server, or back to @auth.backoff)
ConnectedOrFailedAgain ==
    currentState \in { "@ok.connected", "@idle.failed", "@auth.backoff" }

\* C16: a transient loss is retried automatically: a close in @ok.connected
\* leads to @connecting.backoff and, with no further external event, to
\* @connecting.busy after backoffDelay; unless the new attempt fails as
\* well, the machine eventually is in @ok.connected again, without any
\* CONNECT or RECONNECT
C16_TransientLossRetried ==
    /\ []LossLeadsToBackoff
    /\ WaitingToRetry ~> ConnectedOrFailedAgain

\* Connected for the second time in a row: the first connection was lost
\* and the retry succeeded on a second transport
C16_Witness ==
    /\ currentState = "@ok.connected"
    /\ context.successCount = 2
    /\ context.transport = 2
    /\ transports[1].closeCalls = 1

----------------------------------------------------------------------------
\* Properties of createClient (specification SpecCreate)

\* A numeric option outside its documented bounds: throttle outside
\* [16, 1000], lostConnectionTimeout outside [200, 30000], a provided
\* backgroundKeepAliveTimeout below 15000
OutOfBounds(o) ==
    \/ Len(o.throttle) = 1 /\ (o.throttle[1] < 16 \/ o.throttle[1] > 1000)
    \/ /\ Len(o.lostConnectionTimeout) = 1
       /\ (o.lostConnectionTimeout[1] < 200 \/ o.lostConnectionTimeout[1] > 30000)
    \/ /\ Len(o.backgroundKeepAliveTimeout) = 1
       /\ o.backgroundKeepAliveTimeout[1] < 15000

\* C17: createClient fails synchronously, before the connection manager is
\* constructed and before any connection attempt, for every throttle
\* outside [16, 1000], every lostConnectionTimeout outside [200, 30000] and
\* every provided backgroundKeepAliveTimeout below 15000, 0 included; for
\* values inside the bounds it does not fail
C17_CreateClientFailsFast ==
    client # "none" =>
        /\ client = "threw" <=> OutOfBounds(options)
        /\ client = "threw" =>
              ~running /\ transports = << >> /\ authCall = "none"

----------------------------------------------------------------------------
\* Properties of logout (specification SpecLogout)

\* C18: after Client.logout() the stored credential is purged (authValue is
\* null) and the connection is re-established: the machine has left its
\* current connection and is on the reconnect path, where it authenticates
\* again before the next transport is opened
C18_LogoutPurgesAndReconnects ==
    running =>
        LET n == logout(Cur) IN
        /\ n.context.authValue = NullAuth
        /\ n.context.transport = NullTransport
        /\ n.currentState \in { "@auth.backoff", "@auth.busy" }

----------------------------------------------------------------------------
\* Properties of ManagedSocket.send (specification SpecSend)

\* C21: ManagedSocket.send called while the context transport is null or
\* not OPEN does not throw, hands nothing to a transport and leaves the
\* state and the context as they are (it only logs a warning); called while
\* the context holds an OPEN transport it hands the data to that transport,
\* whose send does not throw; nothing was ever handed to a transport that
\* had not opened
C21_SendOnlyWhenOpen ==
    LET socket == context.transport
        open == socket # NullTransport /\ transports[socket].readyState = "OPEN"
        n == ManagedSocketSend(Cur, RawData)
    IN  /\ ~open => n = [ Cur EXCEPT !.warnings = 1 ]
        /\ open =>
              /\ ~WsSendThrows(transports[socket])
              /\ n = [ Cur EXCEPT !.sentLog = Append(@, [ to |-> socket, f |-> RawData ]) ]
        /\ \A i \in 1..Len(sentLog) :
              /\ sentLog[i].to \in 1..Len(transports)
              /\ transports[sentLog[i].to].ws # "connecting"

\* send() was called before the connection was there: a warning and
\* nothing else, after an earlier send had gone out on the first transport
C21_Witness ==
    /\ warnings = 1
    /\ context.transport = NullTransport
    /\ ~InOk(currentState)
    /\ sentLog = << [ to |-> 1, f |-> RawData ] >>

----------------------------------------------------------------------------
\* Properties of the delivery of transport messages (specification
\* SpecDelivery)

\* What the subscribers are told when the frames of a queue are handled one
\* after the other, each as if it were the only one
RECURSIVE NotificationsOf(_)
NotificationsOf(queue) ==
    IF queue = << >> THEN << >>
    ELSE handleServerMessage(Cur, Head(queue)).notified \o NotificationsOf(Tail(queue))

\* C22: onMessage delivers only while the machine is in an OK state whose
\* entry has been announced ("connected"); delivery is paused, and no unpause
\* is pending, whenever the machine is not in an OK state; a frame that
\* arrives while delivery is paused reaches no subscriber and is put at the
\* end of the queue; the unpause delivers the queued frames in the order of
\* their arrival and empties the queue
C22_DeliveryOnlyInOk ==
    /\ ~paused => InOk(currentState) /\ lastStatus = "connected" /\ ~unpauseTimer
    /\ unpauseTimer => InOk(currentState) /\ lastStatus = "connected" /\ paused
    /\ ~InOk(currentState) => paused /\ ~unpauseTimer
    /\ notified # << >> => InOk(currentState) /\ lastStatus = "connected" /\ ~paused
    /\ paused =>
          \A t \in 1..Len(transports), frame \in PeerFrames :
              transports[t].msgSub =>
                  LET n == WsOnMessage(Cur, t, frame) IN
                  /\ n.notified = << >>
                  /\ n.pauseQueue = Append(pauseQueue, frame)
    /\ unpauseTimer =>
          LET n == onMessageUnpause([ Cur EXCEPT !.unpauseTimer = FALSE ]) IN
          /\ n.notified = NotificationsOf(pauseQueue)
          /\ n.pauseQueue = << >>
          /\ ~n.paused

\* Two frames of different peers that arrived between the open and the
\* unpause have just been delivered, the first one first
C22_Witness ==
    /\ InOk(currentState)
    /\ ~paused
    /\ pauseQueue = << >>
    /\ Len(notified) = 2
    /\ notified[1].p = "u2"
    /\ notified[2].p = OwnUid

----------------------------------------------------------------------------
\* Properties of channels across reconnects (specification SpecChannels)

\* The channel_join control frame of channel ch has been sent on transport t
JoinSentOn(ch, t) ==
    \E i \in 1..Len(sentLog) :
        /\ sentLog[i].to = t
        /\ accepted[sentLog[i].f] = ControlFrame("channel_join", infos[ch].id, NoField)

\* C23: when the machine is in an OK state it has entered again after losing
\* an earlier connection, a channel_join control frame has been sent on the
\* current transport for every channel that still has an outstanding lease
C23_RejoinsOnReconnect ==
    (InOk(currentState) /\ context.successCount > 1) =>
        \A ch \in 1..Len(infos) :
            infos[ch].unsubs # { } => JoinSentOn(ch, context.transport)

----------------------------------------------------------------------------
\* Properties of premature transport events (specification SpecSend)

\* The attempt on transport t has seen its open event and its part 3 has
\* not run yet
AwaitingContinuation(t) ==
    /\ transports[t].phase = "resolved"
    /\ ~transports[t].aborted
    /\ transports[t].ws = "open"

\* hit is the program after a premature event: the machine has not moved,
\* the promise stays resolved and the event is the captured one
Captured(hit, t, event) ==
    /\ hit.currentState = "@connecting.busy"
    /\ hit.context = context
    /\ hit.transports[t].phase = "resolved"
    /\ hit.transports[t].captured = event

\* C24: a close or an error event dispatched between the open event and
\* part 3 of the @connecting.busy work is captured without moving the
\* machine, and part 3 then takes the failure path for it: no OK state is
\* entered, the context keeps no transport, the transport is closed and
\* the machine goes where a failure with that event sends it
C24_PrematureEventFails ==
    \A t \in 1..Len(transports) :
        AwaitingContinuation(t) =>
            /\ currentState = "@connecting.busy"
            /\ \A code \in CloseCodes :
                  LET hit == WsOnClose(Cur, t, code) IN
                  /\ Captured(hit, t, CloseEvent(code))
                  /\ FailureDisposition(ConnectContinuation(hit, t), t, CloseEvent(code))
            /\ LET hit == WsOnError(Cur, t) IN
               /\ Captured(hit, t, ErrorEvent)
               /\ FailureDisposition(ConnectContinuation(hit, t), t, ErrorEvent)

\* A transport has opened and then closed before part 3 ran
C24_Witness ==
    \E t \in 1..Len(transports) :
        /\ currentState = "@connecting.busy"
        /\ transports[t].phase = "resolved"
        /\ transports[t].readyState = "CLOSED"
        /\ transports[t].captured = CloseEvent(4001)
        /\ ~transports[t].aborted

----------------------------------------------------------------------------
\* Properties of abandoned connection attempts (specification
\* SpecAbandonFair)

\* An attempt whose signal is aborted and whose transport nobody has closed
Abandoned ==
    \E t \in 1..Len(transports) :
        transports[t].aborted /\ transports[t].closeCalls = 0

\* Leaving @connecting.busy by an event or by stop() aborts the attempt in
\* flight; the continuation of an aborted attempt moves nothing but closes
\* the transport; an aborted attempt's transport is never in the context
DiscardsAbandoned ==
    /\ currentState = "@connecting.busy" =>
          /\ attempt # 0
          /\ transports[attempt].phase # "settled"
          /\ ~transports[attempt].aborted
          /\ \A type \in { "DISCONNECT", "RECONNECT" } :
                send(Cur, [ type |-> type ]).transports[attempt].aborted
          /\ stop(Cur).transports[attempt].aborted
    /\ \A t \in 1..Len(transports) :
          transports[t].aborted =>
              /\ context.transport # t
              /\ attempt # t
              /\ transports[t].phase \in { "resolved", "rejected" } =>
                    LET n == ConnectContinuation(Cur, t) IN
                    /\ n.currentState = currentState
                    /\ n.context = context
                    /\ n.running = running
                    /\ n.errors = << >>
                    /\ n.transports[t].closeCalls = 1
                    /\ n.transports[t].phase = "settled"

\* C25: when @connecting.busy is left by DISCONNECT, RECONNECT or stop()
\* before its attempt became a transition, the attempt's result is discarded
\* (no transition, the transport never in the context) whatever the transport
\* and the timeout do afterwards, and the transport is eventually closed
\* (again and again no abandoned transport is left unclosed, and a closed
\* transport stays closed)
C25_AbandonedAttemptDiscarded ==
    /\ []DiscardsAbandoned
    /\ []<>~Abandoned

\* The attempt was abandoned by DISCONNECT, its transport has opened since
\* and nobody has closed it yet: the continuation is about to run
C25_Witness ==
    \E t \in 1..Len(transports) :
        /\ transports[t].aborted
        /\ transports[t].readyState = "OPEN"
        /\ transports[t].phase = "resolved"
        /\ transports[t].closeCalls = 0
        /\ currentState = "@idle.initial"
        /\ context.transport = NullTransport

----------------------------------------------------------------------------
\* Properties of socket events in the OK states (specification SpecSend)

\* TransportReadyState
ReadyStates == { "CONNECTING", "OPEN", "CLOSING", "CLOSED" }

\* The program when the context's transport reports readyState rs
Reporting(rs) == [ Cur EXCEPT !.transports[context.transport].readyState = rs ]

\* n left OK for @connecting.backoff, one tier up the ladder
LostConnection(n) ==
    /\ n.currentState = "@connecting.backoff"
    /\ n.context.backoffDelay = OneTierUp(context.backoffDelay)
    /\ n.context.transport = NullTransport
    /\ n.transports[context.transport].closeCalls =
           transports[context.transport].closeCalls + 1

\* C26: in an OK state EXPLICIT_SOCKET_ERROR is ignored while the
\* transport of the context reports OPEN (state, context and the transport
\* are as before, the transport is not closed), and with any other
\* readyState the machine goes to @connecting.backoff with backoffDelay one
\* tier up; EXPLICIT_SOCKET_CLOSE always goes to @connecting.backoff with
\* backoffDelay one tier up
C26_SocketEventsInOk ==
    InOk(currentState) =>
        /\ context.transport # NullTransport
        /\ \A rs \in ReadyStates :
              LET n == send(Reporting(rs), [ type |-> "EXPLICIT_SOCKET_ERROR" ]) IN
              IF rs = "OPEN"
              THEN /\ n.currentState = currentState
                   /\ n.context = context
                   /\ n.transports = Reporting(rs).transports
                   /\ n.timer = timer
                   /\ n.effectLog = NoExit
              ELSE LostConnection(n)
        /\ \A rs \in ReadyStates, code \in CloseCodes :
              LostConnection(send(Reporting(rs),
                                  [ type |-> "EXPLICIT_SOCKET_CLOSE", code |-> code ]))

\* The socket of an OK state was closed by the server: the machine has left
\* OK for @connecting.backoff with the first delay of the ladder
C26_Witness ==
    /\ effectLog.leftOk
    /\ effectLog.from = "@ok.connected"
    /\ currentState = "@connecting.backoff"
    /\ context.backoffDelay = BACKOFF_DELAYS[1]
    /\ context.transport = NullTransport

----------------------------------------------------------------------------
\* Properties of backoffDelay (specification SpecRetry)

\* C27: backoffDelay is always the reset delay or a tier of the normal
\* ladder, never a value only the slow ladder has (30000, 60000, 300000),
\* and it is the reset delay whenever the machine is in an OK state
C27_BackoffDelayRange ==
    /\ context.backoffDelay \in { 249, 250, 500, 1000, 2000, 4000, 8000, 10000 }
    /\ InOk(currentState) => context.backoffDelay = 249

\* Just connected again after a lost connection: the loss had raised the
\* delay and the new connection has put it back to the reset delay
C27_Witness ==
    /\ effectLog.from = "@connecting.busy"
    /\ InOk(currentState)
    /\ context.successCount = 2
    /\ context.backoffDelay = RESET_DELAY

----------------------------------------------------------------------------
\* Properties of successCount and the reported status (specification Spec)

InIdle(s) == s \in { "@idle.initial", "@idle.failed", "@idle.zombie" }

InAuthOrConnecting(s) ==
    s \in { "@auth.busy", "@auth.backoff", "@connecting.busy", "@connecting.backoff" }

\* successCount is 0 in the idle states and positive in the OK states; in
\* the @auth.* and @connecting.* states getStatus() is "reconnecting" when
\* successCount is positive and "connecting" when not
CountAndStatus ==
    /\ InIdle(currentState) => context.successCount = 0
    /\ InOk(currentState) => context.successCount > 0
    /\ InAuthOrConnecting(currentState) =>
          getStatus(Cur) = IF context.successCount > 0 THEN "reconnecting"
                           ELSE "connecting"

\* successCount is positive after a step exactly when the step ends in an
\* OK state, or successCount was positive before and the step neither ends
\* in an idle state nor is a RECONNECT
CountSinceReset ==
    running' =>
        (context'.successCount > 0 <=>
            \/ InOk(currentState')
            \/ /\ context.successCount > 0
               /\ ~InIdle(currentState')
               /\ ~Reconnect)

\* C28: successCount is 0 in every @idle.* state, also after a move from
\* one idle state to another; in the @auth.* and @connecting.* states the
\* status reported is "reconnecting" exactly when successCount > 0, which is
\* the case exactly when an OK state has been entered since the machine was
\* last idle or last received RECONNECT
C28_SuccessCountAndStatus ==
    /\ []CountAndStatus
    /\ [][CountSinceReset]_vars

\* The connection has just been lost: the machine waits in
\* @connecting.backoff and reports "reconnecting"
C28_Witness ==
    /\ effectLog.leftOk
    /\ currentState = "@connecting.backoff"
    /\ context.successCount = 1
    /\ getStatus(Cur) = "reconnecting"

----------------------------------------------------------------------------
\* Properties of the order of the steps of one transition (specification
\* SpecSignals)

\* The events an application, the host or a socket may send to the machine
MachineEvents ==
    { [ type |-> ty ] :
        ty \in { "CONNECT", "RECONNECT", "DISCONNECT", "NAVIGATOR_ONLINE",
                 "NAVIGATOR_OFFLINE", "WINDOW_GOT_FOCUS", "EXPLICIT_SOCKET_ERROR" } }
        \cup { [ type |-> "EXPLICIT_SOCKET_CLOSE", code |-> code ] : code \in CloseCodes }

\* What shows the order in the program n left by event in the current state:
\* the target was chosen on the context as it was before any cleanup
\* (EXPLICIT_SOCKET_ERROR in OK still saw the open transport and is ignored);
\* the effects of a transition that left OK saw the transport already null
\* and closed; the timer an entry hook armed read the delay the effects had
\* set, and the async entry work started on the context the effects had set;
\* the status announced at didEnterState is the status of the state entered
\* with the context the effects and the entry hooks left
OrderShows(event, n) ==
    /\ (InOk(currentState) /\ event.type = "EXPLICIT_SOCKET_ERROR") => n.effectLog = NoExit
    /\ (InOk(currentState) /\ ~InOk(n.currentState)) =>
          /\ n.effectLog.leftOk
          /\ n.effectLog.seen = NullTransport
          /\ n.effectLog.closes = 1
    /\ n.currentState # currentState =>
          /\ n.currentState \in { "@auth.backoff", "@connecting.backoff" } =>
                /\ n.timer.armed
                /\ n.timer.delay = n.context.backoffDelay
                /\ event.type = "RECONNECT" =>
                      n.timer.delay = OneTierUp(context.backoffDelay)
          /\ n.currentState = "@idle.initial" => n.context.successCount = 0
          /\ n.lastStatus = toConnectionStatus(n.currentState, n.context)

\* C29: one event that causes a transition has its target computed from the
\* context before the transition, then the exit cleanups run, then the
\* effects, then the entry hooks and the timed and async entry work, and
\* didEnterState is notified last; the OK cleanup (close and null the
\* transport) runs before increaseBackoffDelay and the logging effect
C29_TransitionOrder ==
    running => \A event \in MachineEvents : OrderShows(event, send(Cur, event))

\* RECONNECT has just taken the machine out of OK: the transport was
\* closed and null when the effects ran, the timer of @auth.backoff holds the
\* delay the effects raised, and the status announced is "connecting"
\* because the effects had reset successCount
C29_Witness ==
    /\ effectLog.leftOk
    /\ effectLog.seen = NullTransport
    /\ effectLog.closes = 1
    /\ currentState = "@auth.backoff"
    /\ timer.armed
    /\ timer.delay = BACKOFF_DELAYS[1]
    /\ context.successCount = 0
    /\ lastStatus = "connecting"

----------------------------------------------------------------------------
\* Properties of the backoff timers (specification SpecSignals)

BackoffStates == { "@auth.backoff", "@connecting.backoff" }

BusyOf(s) == IF s = "@auth.backoff" THEN "@auth.busy" ELSE "@connecting.busy"

\* n is in the busy state of the current backoff state, with no timer left
MovedToBusy(n) ==
    /\ n.currentState = BusyOf(currentState)
    /\ n.effectLog.from = currentState
    /\ ~n.timer.armed

\* C30: a timer is armed exactly while the machine is in a backoff state,
\* and it is the timer of that entry (target the busy state of the same
\* group, delay a backoffDelay read at an entry); while the machine stays in
\* the backoff state no event adds or removes a timer; the timer firing moves the
\* machine to the busy state once and leaves no timer; NAVIGATOR_ONLINE
\* moves it to the busy state with backoffDelay 249 and cancels the timer;
\* every other exit cancels the timer as well, so that no later state has a
\* timer of an earlier entry
C30_BackoffTimerOncePerEntry ==
    /\ timer.armed <=> currentState \in BackoffStates
    /\ timer.armed =>
          /\ timer.target = BusyOf(currentState)
          /\ timer.delay \in { BACKOFF_DELAYS[i] : i \in 1..Len(BACKOFF_DELAYS) }
          /\ timer.delay <= context.backoffDelay
          /\ MovedToBusy(transition([ Cur EXCEPT !.timer = NoTimer ],
                                    Target(timer.target, << >>)))
          /\ LET n == send(Cur, [ type |-> "NAVIGATOR_ONLINE" ]) IN
             /\ MovedToBusy(n)
             /\ n.context.backoffDelay = RESET_DELAY
    /\ running =>
          \A event \in MachineEvents :
              LET n == send(Cur, event) IN
              /\ n.currentState = currentState =>
                    /\ n.timer.armed = timer.armed
                    /\ n.timer.target = timer.target
              /\ n.currentState # currentState =>
                    IF n.currentState \in BackoffStates
                    THEN n.timer = [ armed |-> TRUE, delay |-> n.context.backoffDelay,
                                     target |-> BusyOf(n.currentState) ]
                    ELSE ~n.timer.armed
    /\ running => ~stop(Cur).timer.armed

\* NAVIGATOR_ONLINE has just cut a wait in @connecting.backoff short: the
\* machine is in @connecting.busy with the reset delay and no timer
C30_Witness ==
    /\ effectLog.from = "@connecting.backoff"
    /\ currentState = "@connecting.busy"
    /\ context.backoffDelay = RESET_DELAY
    /\ ~timer.armed

----------------------------------------------------------------------------
\* Properties of abandoned authenticate() calls (specification SpecAuth)

\* C31: an authenticate() call is pending exactly while the machine is in
\* @auth.busy; DISCONNECT and RECONNECT in @auth.busy abandon the pending
\* call; and when an abandoned call settles, in whichever way, nothing
\* happens: no transition, no change of the context (authValue,
\* backoffDelay), no error, and the call of a newer @auth.busy entry stays
\* pending
C31_StaleAuthDiscarded ==
    /\ authCall = "pending" <=> currentState = "@auth.busy"
    /\ currentState = "@auth.busy" =>
          \A type \in { "DISCONNECT", "RECONNECT" } :
              LET n == send(Cur, [ type |-> type ]) IN
              /\ n.currentState # "@auth.busy"
              /\ n.authCall = "none"
              /\ n.staleAuth = staleAuth + 1
    /\ staleAuth > 0 =>
          \A target \in AuthTargets :
              LET n == StaleAuthSettled(Cur, target) IN
              /\ n.currentState = currentState
              /\ n.context = context
              /\ n.errors = << >>
              /\ n.effectLog = NoExit
              /\ n.lastStatus = lastStatus
              /\ n.timer = timer
              /\ n.authCall = authCall
              /\ n.transports = transports
              /\ n.staleAuth = staleAuth - 1

\* DISCONNECT left @auth.busy before the first call settled and CONNECT
\* entered it again: two calls are outstanding, the older one abandoned,
\* and no auth value has been stored yet
C31_Witness ==
    /\ staleAuth = 1
    /\ currentState = "@auth.busy"
    /\ authCall = "pending"
    /\ effectLog.from = "@idle.initial"
    /\ context.authValue = NullAuth

----------------------------------------------------------------------------
\* Properties of the timeouts of withTimeout (specification SpecTimeoutFair)

BusyStates == { "@auth.busy", "@connecting.busy" }

\* The state after the failure path: waiting in @auth.backoff one tier up,
\* with the timer that retries in @auth.busy
RetriesFromAuthBackoff(n) ==
    /\ n.currentState = "@auth.backoff"
    /\ n.context.backoffDelay = OneTierUp(context.backoffDelay)
    /\ n.timer = [ armed |-> TRUE, delay |-> n.context.backoffDelay,
                   target |-> "@auth.busy" ]
    /\ n.errors = << >>

\* The timer of withTimeout rejects the promise of attempt t
TimedOut(r, t) ==
    [ r EXCEPT !.transports[t].phase = "rejected", !.transports[t].reason = TimeoutError ]

\* In @auth.busy the timeout of authenticate() takes the failure path; in
\* @connecting.busy, while the transport has emitted nothing, the timeout of
\* the attempt followed by its continuation closes the transport and takes
\* the failure path
TimeoutTakesFailurePath ==
    /\ currentState = "@auth.busy" =>
          /\ authCall = "pending"
          /\ RetriesFromAuthBackoff(AuthSettled(Cur, AuthFailed([ kind |-> "timeout" ])))
    /\ currentState = "@connecting.busy" =>
          /\ attempt # 0
          /\ transports[attempt].phase # "settled"
          /\ transports[attempt].phase = "pending" =>
                LET n == ConnectContinuation(TimedOut(Cur, attempt), attempt) IN
                /\ RetriesFromAuthBackoff(n)
                /\ n.transports[attempt].closeCalls = 1
                /\ n.context.transport = NullTransport

\* C32: the machine does not stay in @auth.busy or @connecting.busy for
\* ever (inside the bound on consecutive failures): a timeout in either
\* state takes the failure path to @auth.backoff with backoffDelay one tier
\* up and the retry timer armed, and under the timers of withTimeout the
\* machine is outside the busy states again and again
C32_BusyStatesTimeOut ==
    /\ []TimeoutTakesFailurePath
    /\ []<>(currentState \notin BusyStates \/ failures = MaxFailures)

\* The transport of the current attempt has emitted nothing and the timer
\* of withTimeout has rejected the attempt
C32_Witness ==
    /\ currentState = "@connecting.busy"
    /\ attempt # 0
    /\ transports[attempt].ws = "connecting"
    /\ transports[attempt].phase = "rejected"
    /\ transports[attempt].reason = TimeoutError
    /\ ~transports[attempt].aborted

----------------------------------------------------------------------------
\* Properties of the Datagram transport (specification SpecDatagram)

\* C35: once close() has been called on a Datagram transport, the close,
\* error and message subscriber lists were empty when the close of the
\* session was initiated, and no close, error or message event is
\* delivered to a subscriber any more (every subscriber was installed
\* before the call)
C35_DatagramCloseClearsSubscribers ==
    datagram.closeCalls > 0 =>
        /\ datagram.atClose = { }
        /\ datagram.delivered = << >>

----------------------------------------------------------------------------
\* Properties of the connectivity events (specification SpecSignals)

\* The programs the handlers of the running machine can leave from the
\* current state: an event sent, the backoff timer, authenticate() settling,
\* the continuation of a settled attempt, a close or error of a transport
MachineOutcomes ==
    { send(Cur, event) : event \in MachineEvents }
        \cup { transition([ Cur EXCEPT !.timer = NoTimer ], Target(target, << >>)) :
                 target \in IF timer.armed THEN { timer.target } ELSE { } }
        \cup { AuthSettled(Cur, target) :
                 target \in IF authCall = "pending" THEN AuthTargets ELSE { } }
        \cup { ConnectContinuation(Cur, t) :
                 t \in { u \in 1..Len(transports) :
                           transports[u].phase \in { "resolved", "rejected" } } }
        \cup { WsOnClose(Cur, t, code) :
                 t \in { u \in 1..Len(transports) :
                           transports[u].ws \in { "connecting", "open" } },
                 code \in CloseCodes }
        \cup { WsOnError(Cur, t) :
                 t \in { u \in 1..Len(transports) :
                           transports[u].ws \in { "connecting", "open" } } }

\* The notifications of n on one of the three event sources
EmittedOn(n, source) ==
    { i \in 1..Len(n.emitted) : n.emitted[i].source = source }

\* What the handler that left n announced, against the last status announced
\* before it and the states before and after it: a status other than the
\* last one, at most once, which then is the last one; didConnect exactly
\* on entering the OK group from outside, didDisconnect exactly on leaving it
Announces(n) ==
    /\ Cardinality(EmittedOn(n, "statusDidChange")) <= 1
    /\ \A i \in EmittedOn(n, "statusDidChange") :
          /\ n.emitted[i].value # lastStatus
          /\ n.emitted[i].value = n.lastStatus
    /\ EmittedOn(n, "statusDidChange") = { } => n.lastStatus = lastStatus
    /\ Cardinality(EmittedOn(n, "didConnect")) <= 1
    /\ Cardinality(EmittedOn(n, "didDisconnect")) <= 1
    /\ EmittedOn(n, "didConnect") # { } <=> (~InOk(currentState) /\ InOk(n.currentState))
    /\ EmittedOn(n, "didDisconnect") # { } <=> (InOk(currentState) /\ ~InOk(n.currentState))

----------------------------------------------------------------------------
\* Properties of the set of states (specification Spec)

\* The states some transition, timer or async entry of the machine targets
TargetedStates ==
    { "@idle.initial", "@idle.failed", "@auth.busy", "@auth.backoff",
      "@connecting.busy", "@connecting.backoff", "@ok.connected" }

----------------------------------------------------------------------------
\* Properties of stale transports (specification SpecSend)

\* The transports other than the context's whose socket can still emit a
\* close or an error event and whose attempt has no continuation to run
Emitting ==
    { t \in 1..Len(transports) :
        /\ t # context.transport
        /\ transports[t].ws \in { "connecting", "open" }
        /\ transports[t].phase \in { "pending", "settled" } }

\* r leaves state, context and subscribers of the connection as they are in
Untouched(r) ==
    /\ r.currentState = currentState
    /\ r.context = context
    /\ r.effectLog = NoExit

\* C38: in an OK state only the close and error events of the transport in
\* the context take the machine out of OK: those of a transport the manager
\* has closed, or whose attempt was rejected or cancelled in
\* @connecting.busy, change nothing of the later connection, be it that the
\* transport emits them as it is or right after its open event, before the
\* continuation of its attempt has run
C38_StaleTransportEventsIgnored ==
    InOk(currentState) =>
        \A t \in Emitting :
            /\ Untouched(WsOnError(Cur, t))
            /\ \A code \in CloseCodes : Untouched(WsOnClose(Cur, t, code))
            /\ transports[t].ws = "connecting" =>
                  /\ Untouched(WsOnError(WsOnOpen(Cur, t), t))
                  /\ \A code \in CloseCodes :
                        Untouched(WsOnClose(WsOnOpen(Cur, t), t, code))

----------------------------------------------------------------------------
\* Properties of the messages of earlier transports (specification
\* SpecSenders)

\* The server behind each transport sends data frames in the name of a peer
\* of its own, so that a frame tells the transport it was received on
SenderOn == << "u1", "u2", "u3" >>

FrameOn(t) ==
    [ t |-> "data", op |-> NoField, c |-> "room-1", p |-> SenderOn[t],
      pl |-> EncodedEvent ]

SenderMessageArrives ==
    \E t \in 1..Len(transports) :
        /\ t <= Len(SenderOn)
        /\ transports[t].ws = "open"
        /\ Len(WsOnMessage(Cur, t, FrameOn(t)).pauseQueue) <= MaxQueued
        /\ Step(WsOnMessage(Cur, t, FrameOn(t)))

\* Connections that receive messages, are lost and are opened again, every
\* transport with a sender of its own
NextSenders ==
    \/ Join
    \/ SenderMessageArrives \/ UnpauseTimerFires
    \/ TimerFires
    \/ AuthResolves
    \/ TransportOpens \/ TransportCloses
    \/ ConnectContinues

SpecSenders == Init /\ [][NextSenders]_vars

\* C39: what onMessage hands to its subscribers was received on the
\* transport in the context: the frames the pending unpause is about to
\* deliver all come from it, and while delivery is not paused no other
\* transport whose attempt is over still has onSocketMessage subscribed
C39_DeliveredFromContextTransport ==
    /\ unpauseTimer =>
          \A i \in 1..Len(pauseQueue) :
              pauseQueue[i].p = SenderOn[context.transport]
    /\ ~paused =>
          \A t \in 1..Len(transports) :
              /\ transports[t].msgSub
              /\ transports[t].ws = "open"
              /\ transports[t].phase = "settled"
              => t = context.transport

----------------------------------------------------------------------------
\* Properties of leave functions that outlive their channel (specification
\* SpecChannels)

\* The leave functions of a channel that has been destroyed while a newer
\* channel is registered under its id
OutlivedLeases ==
    { l \in 1..Len(leases) :
        /\ infos[leases[l]].destroyed > 0
        /\ channelsById[infos[leases[l]].id] \notin { 0, leases[l] } }

\* C40: calling the leave function of a destroyed channel after join(id) has
\* created a new channel under the same id leaves the registry, every
\* channel with its leases and the outbound frames as they are; the new
\* channel is still registered and not destroyed
C40_OutlivedLeaveHarmless ==
    \A l \in OutlivedLeases :
        LET n == leave(Cur, l)
            newer == channelsById[infos[leases[l]].id]
        IN  /\ n.channelsById = channelsById
            /\ n.infos = infos
            /\ n.leases = leases
            /\ n.accepted = accepted
            /\ n.infos[newer].destroyed = 0
            /\ n.infos[newer].unsubs # { }

\* The leave function of the destroyed first channel has just been called
\* again, with the second channel of the same id registered and leased
C40_Witness ==
    /\ warnings = 1
    /\ OutlivedLeases # { }
    /\ \A l \in OutlivedLeases :
          /\ infos[channelsById[infos[leases[l]].id]].unsubs # { }
          /\ infos[channelsById[infos[leases[l]].id]].destroyed = 0

----------------------------------------------------------------------------
\* Properties of the codec (specification SpecCodec)

\* C19: decoding the encoding of a value of a supported type (null, a
\* boolean, an integer, a float, a string, a byte array, an array, a map
\* with string keys, a date) returns without an error a value equal to the
\* one encoded; no integer drawn is beyond 2^53
C19_RoundTrip ==
    codec.origin = "encoded" /\ codec.decoded # << >> =>
        /\ ~codec.decoded[1].threw
        /\ codec.decoded[1].value = codec.value

\* C20: decode throws on every input that has the byte 0xc1 where a value
\* is expected and on every strict prefix of an encoding, the empty one
\* included; it returns no value for them
C20_DecodeRejects ==
    codec.origin \in { "invalid", "truncated" } /\ codec.decoded # << >> =>
        codec.decoded[1].threw

\* The first byte MessagePack has for a value in its narrowest format: fixint,
\* uint 8 to uint 64 for an integer that is not negative, int 8 to int 64
\* for a negative one, bin 8 up to 255 bytes, fixstr and str 8, fixarray,
\* fixmap, and timestamp 32, 64 or 96 for a date
NarrowestTag(value) ==
    CASE value.type = "null" -> 192
      [] value.type = "boolean" -> IF value.b THEN 195 ELSE 194
      [] value.type = "float" -> 203
      [] value.type = "int" /\ ~value.neg ->
            IF Leq(value.mag, << 127 >>) THEN ToNat(value.mag)
            ELSE IF Leq(value.mag, << 255 >>) THEN 204
            ELSE IF Leq(value.mag, Repeat(255, 2)) THEN 205
            ELSE IF Leq(value.mag, Repeat(255, 4)) THEN 206
            ELSE 207
      [] value.type = "int" /\ value.neg ->
            IF Leq(value.mag, << 32 >>) THEN 256 - ToNat(value.mag)
            ELSE IF Leq(value.mag, << 128 >>) THEN 208
            ELSE IF Leq(value.mag, << 128, 0 >>) THEN 209
            ELSE IF Leq(value.mag, << 128, 0, 0, 0 >>) THEN 210
            ELSE 211
      [] value.type = "string" ->
            LET length == Len(encodeUtf8(value.chars)) IN
            IF length <= 31 THEN 160 + length
            ELSE IF length <= 255 THEN 217
            ELSE IF length <= 65535 THEN 218 ELSE 219
      [] value.type = "bin" ->
            IF Len(value.bytes) <= 255 THEN 196
            ELSE IF Len(value.bytes) <= 65535 THEN 197 ELSE 198
      [] value.type = "array" ->
            IF Len(value.items) <= 15 THEN 144 + Len(value.items)
            ELSE IF Len(value.items) <= 65535 THEN 220 ELSE 221
      [] value.type = "object" ->
            IF Len(value.entries) <= 15 THEN 128 + Len(value.entries)
            ELSE IF Len(value.entries) <= 65535 THEN 222 ELSE 223
      [] value.type = "date" ->
            IF value.ms >= 0 /\ value.ms % 1000 = 0 THEN 214
            ELSE IF value.ms >= 0 THEN 215
            ELSE 199

\* C33: the encoding of every value starts with the tag of the narrowest
\* MessagePack format that holds it: bin 8 for a byte array of up to 255
\* bytes, uint 64 for an integer above 2^32 - 1, and for every other
\* integer the smallest int or uint format it fits
C33_NarrowestTag ==
    codec.origin = "encoded" =>
        codec.array.bytes[1] = NarrowestTag(codec.value)

\* The entries of a map whose value is not undefined, in insertion order
RECURSIVE Defined(_)
Defined(entries) ==
    IF entries = << >> THEN << >>
    ELSE (IF Head(entries).value = Undefined THEN << >> ELSE << Head(entries) >>)
             \o Defined(Tail(entries))

\* The number of entries a fixmap header declares
DeclaredEntries(bytes) == bytes[1] - 128

\* C34: the encoding of a map with undefined values is a well-formed map of
\* its defined keys: the header declares as many entries as key/value pairs
\* follow, and decode returns the map restricted to its defined keys
C34_UndefinedKeysOmitted ==
    codec.origin = "sparse" =>
        /\ DeclaredEntries(codec.array.bytes) = Len(Defined(codec.value.entries))
        /\ codec.array.bytes =
               append(Object(Defined(codec.value.entries)))
        /\ codec.decoded # << >> =>
              /\ ~codec.decoded[1].threw
              /\ codec.decoded[1].value = Object(Defined(codec.value.entries))

====
